---- MODULE Spec2Model ----
(***************************************************************************)
(* Knowledge-graph ingestion of app/services/kag_service.py.               *)
(*                                                                         *)
(* The graph store is a set of nodes and a set of edges.  Every            *)
(* session.run of the two ingestion paths (create_dynamic_knowledge_graph  *)
(* and process_document) is one atomic step on that store; requests        *)
(* interleave at those steps.  Identifier sanitization and value           *)
(* normalization are operators over character sequences, computed the way  *)
(* the regular expressions of the source compute them.                     *)
(***************************************************************************)
EXTENDS Integers, Sequences, FiniteSets, TLC

VARIABLES nodes, edges, req, args, probe, vector_db, stores, document_service

\* The graph side and the document side of the process.
kag == <<nodes, edges, req, args>>
rag == <<vector_db, stores, document_service>>

vars == <<nodes, edges, req, args, probe, vector_db, stores, document_service>>

(***************************************************************************)
(* Bounds of the model.                                                    *)
(***************************************************************************)
MaxIdentLen == 3
MaxStrLen == 3

(***************************************************************************)
(* Characters.  A string is a sequence of one-character strings.           *)
(***************************************************************************)
LowerSeq ==
  <<"a","b","c","d","e","f","g","h","i","j","k","l","m",
    "n","o","p","q","r","s","t","u","v","w","x","y","z">>

UpperSeq ==
  <<"A","B","C","D","E","F","G","H","I","J","K","L","M",
    "N","O","P","Q","R","S","T","U","V","W","X","Y","Z">>

DigitSeq == <<"0","1","2","3","4","5","6","7","8","9">>

Range(f) == {f[i] : i \in DOMAIN f}

Lower == Range(LowerSeq)
Upper == Range(UpperSeq)
Digits == Range(DigitSeq)

\* The character class [a-zA-Z0-9_] of the three re.sub calls.
SafeChars == Lower \cup Upper \cup Digits \cup {"_"}

AllSafe(s) == \A i \in DOMAIN s : s[i] \in SafeChars

MapChars(f(_), s) == [i \in DOMAIN s |-> f(s[i])]

\* str.upper() on one character.
UpperChar(c) ==
  IF c \in Lower THEN UpperSeq[CHOOSE i \in DOMAIN LowerSeq : LowerSeq[i] = c]
  ELSE c

upper(s) == MapChars(UpperChar, s)

\* str.replace(' ', '_') on one character.
SpaceToUnderscore(c) == IF c = " " THEN "_" ELSE c

replace_space(s) == MapChars(SpaceToUnderscore, s)

\* A regex missing its negation: the safe characters are the ones replaced.
SanitizeCharInverted(c) == IF c \in SafeChars THEN "_" ELSE c

\* re.sub(r'[^a-zA-Z0-9_]', '_', .) on one character.
SanitizeChar(c) == IF c \in SafeChars THEN c ELSE "_"

sanitize(s) == MapChars(SanitizeChar, s)

(***************************************************************************)
(* The identifier each site interpolates into a query, from the string     *)
(* the language model supplied.                                            *)
(***************************************************************************)
\* _create_entity_node: sanitized_type.
EntityLabel(s) == sanitize(s)

\* create_dynamic_knowledge_graph: relationship_type, handed as it is to
\* _create_relationship, which interpolates it.
DynRelType(s) == replace_space(upper(s))

\* process_document: sanitized_label.
IngestLabel(s) == sanitize(s)

\* process_document: rel_type.
IngestRelType(s) == sanitize(upper(s))

\* semantic_search_graph: the entity type of a match clause.
SearchLabel(s) == s

\* semantic_search_graph: rel_type.
SearchRelType(s) == replace_space(upper(s))

(***************************************************************************)
(* Extracted values: a string, a number or null.  A number is n / 10^d     *)
(* with no trailing zero in its fraction, so that 5, 5.0 and 5.00 are one  *)
(* value, as they are one float.                                           *)
(***************************************************************************)
StrV(s) == [k |-> "str", s |-> s, n |-> 0, d |-> 0]
Null == [k |-> "null", s |-> <<>>, n |-> 0, d |-> 0]

RECURSIVE Canon(_, _)
Canon(n, d) == IF d > 0 /\ n % 10 = 0 THEN Canon(n \div 10, d - 1)
               ELSE [k |-> "num", s |-> <<>>, n |-> n, d |-> d]

NumV(n, d) == Canon(n, d)

DigitVal(c) == (CHOOSE i \in DOMAIN DigitSeq : DigitSeq[i] = c) - 1

Whitespace == {" "}

\* str.strip()
RECURSIVE lstrip(_)
lstrip(s) == IF s # <<>> /\ Head(s) \in Whitespace THEN lstrip(Tail(s)) ELSE s

RECURSIVE rstrip(_)
rstrip(s) == IF s # <<>> /\ s[Len(s)] \in Whitespace
             THEN rstrip(SubSeq(s, 1, Len(s) - 1)) ELSE s

strip(s) == rstrip(lstrip(s))

\* str.replace(c, '')
Remove(c, s) == SelectSeq(s, LAMBDA x : x # c)

AllDigits(s) == \A i \in DOMAIN s : s[i] \in Digits

\* re.match(r'^\$?[\d,]+(\.\d+)?$', s)
MatchCurrency(s) ==
  LET body == IF s # <<>> /\ Head(s) = "$" THEN Tail(s) ELSE s
      IntPart(t) == t # <<>> /\ \A i \in DOMAIN t : t[i] \in Digits \cup {","}
  IN  \/ IntPart(body)
      \/ \E p \in DOMAIN body :
            /\ body[p] = "."
            /\ IntPart(SubSeq(body, 1, p - 1))
            /\ p < Len(body)
            /\ AllDigits(SubSeq(body, p + 1, Len(body)))

\* re.match(r'^\d{1,2}[/-]\d{1,2}[/-]\d{2,4}$', s)
MatchDate(s) ==
  \E p \in DOMAIN s : \E q \in DOMAIN s :
     /\ p < q
     /\ s[p] \in {"/", "-"} /\ s[q] \in {"/", "-"}
     /\ p - 1 \in 1..2 /\ AllDigits(SubSeq(s, 1, p - 1))
     /\ q - p - 1 \in 1..2 /\ AllDigits(SubSeq(s, p + 1, q - 1))
     /\ Len(s) - q \in 2..4 /\ AllDigits(SubSeq(s, q + 1, Len(s)))

RECURSIVE DigitsValue(_)
DigitsValue(s) == IF s = <<>> THEN 0
                  ELSE 10 * DigitsValue(SubSeq(s, 1, Len(s) - 1)) + DigitVal(s[Len(s)])

\* float(s) raises ValueError on the empty string; every other string that the
\* currency pattern leaves after '$' and ',' are removed is digits, then
\* optionally a point and digits.
FloatRaises(s) == s = <<>>

float(s) ==
  IF \E p \in DOMAIN s : s[p] = "."
  THEN LET p == CHOOSE i \in DOMAIN s : s[i] = "."
           frac == SubSeq(s, p + 1, Len(s))
       IN  NumV(DigitsValue(SubSeq(s, 1, p - 1) \o frac), Len(frac))
  ELSE NumV(DigitsValue(s), 0)

\* The final "return value" sits inside the isinstance branch: a value that is
\* not a string falls off the end of the function, which returns None.
NormalizeFallsThrough(v) ==
  IF v.k = "str"
  THEN LET t == strip(v.s)
           c == Remove(",", Remove("$", t))
       IN  IF MatchCurrency(t) /\ ~FloatRaises(c) THEN float(c)
           ELSE IF MatchDate(t) THEN StrV(t)
           ELSE v
  ELSE Null

normalize_value(v) ==
  IF v.k = "str"
  THEN LET t == strip(v.s)
           c == Remove(",", Remove("$", t))
       IN  IF MatchCurrency(t) /\ ~FloatRaises(c) THEN float(c)
           ELSE IF MatchDate(t) THEN StrV(t)
           ELSE v
  ELSE v

(***************************************************************************)
(* Bounded input sets of the pure functions.                               *)
(***************************************************************************)
RECURSIVE SeqsUpTo(_, _)
SeqsUpTo(S, n) ==
  IF n = 0 THEN {<<>>}
  ELSE LET shorter == SeqsUpTo(S, n - 1)
       IN  shorter \cup {Append(s, c) : s \in shorter, c \in S}

IdentAlphabet == {"a", "Z", "7", "_", " ", "-"}

IdentInputs == SeqsUpTo(IdentAlphabet, MaxIdentLen)

ValueAlphabet == {"$", "5", "0", ",", ".", " ", "x"}

DayStrings == {<<"1">>, <<"1","2">>, <<"1","2","3">>}
YearStrings == {<<"9">>, <<"9","9">>, <<"2","0","2","5">>, <<"2","0","2","5","0">>}
Paddings == {<<>>, <<" ">>}

\* Date-like strings, matching and nearly matching, bare and padded.
DateLike ==
  {l \o a \o <<x>> \o b \o <<y>> \o c \o r :
     l \in Paddings, r \in Paddings, a \in DayStrings, b \in {<<"1">>, <<"1","2">>},
     x \in {"/", "-"}, y \in {"/", "-", "."}, c \in YearStrings}

NormInputs ==
  {StrV(s) : s \in SeqsUpTo(ValueAlphabet, MaxStrLen) \cup DateLike}
    \cup {NumV(5, 0), NumV(1050, 2), Null}

(***************************************************************************)
(* Inputs of an ingestion.                                                 *)
(***************************************************************************)
MaxReq == 2
MaxSchema == 3
MaxList == 2

Requests == 1..MaxReq

\* Entity names of a schema, which are the keys of the extracted data.
Names == {"item", "item_0"}

Labels == {<<"L","i","n","e"," ","I","t","e","m">>}

RelTypes == {<<"h","a","s"," ","a">>, <<"c","o","n","t","a","i","n","s">>}

PropValues == {StrV(<<"$","5",".","0","0">>)}

\* An entity instance: attribute -> value.
Items == {[unit_price |-> v] : v \in PropValues}

\* The value of one key of the extracted data: no such key, JSON null, one
\* object, or an array of objects.
Absent == [kind |-> "absent", items |-> <<>>]
NullData == [kind |-> "null", items |-> <<>>]
Scalar(it) == [kind |-> "scalar", items |-> <<it>>]
List(its) == [kind |-> "list", items |-> its]

DataShapes(nl) ==
  {Absent, NullData} \cup {Scalar(it) : it \in Items}
    \cup {List(its) : its \in SeqsUpTo(Items, nl)}

Relationships == {[related_to |-> n, relationship_type |-> t] : n \in Names, t \in RelTypes}

\* One entity of a schema, with at most nr relationships.
EntitySchemas(nr) ==
  {[name |-> n, type |-> l, relationships |-> rs] :
     n \in Names, l \in Labels, rs \in SeqsUpTo(Relationships, nr)}

\* The entity lists of the schemas with at most ns entities and relationships
\* in all.
RECURSIVE Schemas(_)
Schemas(ns) ==
  IF ns <= 0 THEN {<<>>}
  ELSE {<<>>} \cup UNION {{<<e>> \o rest : rest \in Schemas(ns - 1 - Len(e.relationships))} :
                            e \in EntitySchemas(ns - 1)}

\* The keys of the extracted data that create_dynamic_knowledge_graph looks up:
\* the entity names of the schema and the related_to names.
Mentioned(es) ==
  {es[i].name : i \in DOMAIN es}
    \cup UNION {{es[i].relationships[j].related_to : j \in DOMAIN es[i].relationships} :
                 i \in DOMAIN es}

\* (document_schema, extracted_data) of create_dynamic_knowledge_graph.  A key
\* that is never looked up is left out of the extracted data.
DynInputs(ns, nl) ==
  UNION {{[entities |-> es,
           data |-> [n \in Names |-> IF n \in Mentioned(es) THEN f[n] ELSE Absent]] :
            f \in [Mentioned(es) -> DataShapes(nl)]} :
           es \in Schemas(ns)}

\* graph_structure of process_document, as the language model returned it.
IngestEntities == {[label |-> l, properties |-> it] : l \in Labels, it \in Items}

\* from_node and to_node are entity indices: those of the ne entities, and one
\* that names no entity.
IngestRels(ne) ==
  {[from_node |-> f, to_node |-> t, type |-> ty] :
     f \in 0..ne, t \in 0..ne, ty \in RelTypes}

\* The structures with at most nl entities and at most ns entities and
\* relationships in all.
\* graph_structure["document_node"]: the type the model gave the document,
\* and the properties of its node.  A null invoice_number is a missing one.
DocumentNode(type, invoice_number) ==
  [type |-> type,
   properties |-> [invoice_number |-> invoice_number, date |-> "1/2/2025",
                   total_amount |-> "$10.00"]]

InvoiceNode == DocumentNode("invoice", "INV-100")

GraphStructures(ns, nl) ==
  UNION {{[document_node |-> InvoiceNode, entities |-> es, relationships |-> rs] :
            rs \in SeqsUpTo(IngestRels(Len(es)), ns - Len(es))} :
           es \in SeqsUpTo(IngestEntities, nl)}

(***************************************************************************)
(* The queries an ingestion sends, in order.  Neither path reads the graph *)
(* to decide what to send next: the sequence is a function of the input.   *)
(***************************************************************************)
DocumentLabel == <<"D","o","c","u","m","e","n","t">>
InvoiceLabel == <<"I","n","v","o","i","c","e">>
CONTAINS == <<"C","O","N","T","A","I","N","S">>

NoProps == [unit_price |-> Null]

\* CREATE (d:<doc> {id: $document_id, ...})
DocQ(doc) ==
  [q |-> "doc", doc |-> doc, label |-> <<>>, node_id |-> "", props |-> NoProps,
   src |-> "", tgt |-> "", type |-> <<>>, tag |-> <<>>]

\* MATCH (d:<doc> {id: $document_id}) CREATE (e:<label> $properties)
\* CREATE (d)-[:CONTAINS]->(e), with e.node_id = node_id.
EntQ(doc, label, props, node_id, tag) ==
  [q |-> "ent", doc |-> doc, label |-> label, node_id |-> node_id, props |-> props,
   src |-> "", tgt |-> "", type |-> <<>>, tag |-> tag]

\* MATCH (d:<doc> {id: $document_id})
\* MATCH (source {node_id: src})<-[:CONTAINS]-(d)
\* MATCH (target {node_id: tgt})<-[:CONTAINS]-(d)
\* CREATE (source)-[:<type>]->(target)
RelQ(doc, src, tgt, type, tag) ==
  [q |-> "rel", doc |-> doc, label |-> <<>>, node_id |-> "", props |-> NoProps,
   src |-> src, tgt |-> tgt, type |-> type, tag |-> tag]

\* A Python exception raised between two queries (entity_data.items() on None).
RaiseQ ==
  [q |-> "raise", doc |-> <<>>, label |-> <<>>, node_id |-> "", props |-> NoProps,
   src |-> "", tgt |-> "", type |-> <<>>, tag |-> <<>>]

RECURSIVE Flatten(_)
Flatten(ss) == IF ss = <<>> THEN <<>> ELSE Head(ss) \o Flatten(Tail(ss))

\* f"{entity_name}_{i}"
IndexedId(name, i) == name \o "_" \o ToString(i)

\* The node_id of each instance of one entity.
NodeIds(name, shape) ==
  IF shape.kind = "list" THEN [i \in DOMAIN shape.items |-> IndexedId(name, i - 1)]
  ELSE <<name>>

\* normalized_data of _create_entity_node, without node_id: a None value is
\* dropped, which is what a null property is in the store.
NormalizedData(item) ==
  [unit_price |-> IF item.unit_price = Null THEN Null
                  ELSE normalize_value(item.unit_price)]

\* The first loop of create_dynamic_knowledge_graph over one schema entity.
EntityQueries(ei, e, data) ==
  LET shape == data[e.name]
      ids == NodeIds(e.name, shape)
  IN  CASE shape.kind = "absent" -> <<>>
        [] shape.kind = "null" -> <<RaiseQ>>
        [] OTHER ->
             [i \in DOMAIN shape.items |->
                EntQ(DocumentLabel, EntityLabel(e.type), NormalizedData(shape.items[i]),
                     ids[i], <<ei>>)]

\* A relationship with an absent end raises KeyError instead of being skipped.
RelationshipQueriesUnguarded(ei, ri, e, data) ==
  LET rel == e.relationships[ri]
      sids == NodeIds(e.name, data[e.name])
      tids == NodeIds(rel.related_to, data[rel.related_to])
  IN  IF data[e.name].kind # "absent" /\ data[rel.related_to].kind # "absent"
      THEN Flatten([i \in DOMAIN sids |->
                      [j \in DOMAIN tids |->
                         RelQ(DocumentLabel, sids[i], tids[j],
                              DynRelType(rel.relationship_type), <<ei, ri>>)]])
      ELSE <<RaiseQ>>

\* The second loop of create_dynamic_knowledge_graph over one relationship:
\* list x list, list x scalar, scalar x list, scalar x scalar.
RelationshipQueries(ei, ri, e, data) ==
  LET rel == e.relationships[ri]
      sids == NodeIds(e.name, data[e.name])
      tids == NodeIds(rel.related_to, data[rel.related_to])
  IN  IF data[e.name].kind # "absent" /\ data[rel.related_to].kind # "absent"
      THEN Flatten([i \in DOMAIN sids |->
                      [j \in DOMAIN tids |->
                         RelQ(DocumentLabel, sids[i], tids[j],
                              DynRelType(rel.relationship_type), <<ei, ri>>)]])
      ELSE <<>>

DynPlan(in) ==
  <<DocQ(DocumentLabel)>>
    \o Flatten([ei \in DOMAIN in.entities |->
                  EntityQueries(ei, in.entities[ei], in.data)])
    \o Flatten([ei \in DOMAIN in.entities |->
                  Flatten([ri \in DOMAIN in.entities[ei].relationships |->
                             RelationshipQueries(ei, ri, in.entities[ei], in.data)])])

\* properties=entity["properties"]: stored as the model returned them.
IngestProps(properties) == properties

\* CREATE (d:Invoice $properties) SET d.id = $document_id
InvoiceQ(document_node) == [DocQ(InvoiceLabel) EXCEPT !.props = document_node.properties]

\* Step 3 of process_document.
IngestPlan(gs) ==
  <<InvoiceQ(gs.document_node)>>
    \o [i \in DOMAIN gs.entities |->
          EntQ(InvoiceLabel, IngestLabel(gs.entities[i].label),
               IngestProps(gs.entities[i].properties), IndexedId("node", i - 1), <<0>>)]
    \o [ri \in DOMAIN gs.relationships |->
          RelQ(InvoiceLabel, IndexedId("node", gs.relationships[ri].from_node),
               IndexedId("node", gs.relationships[ri].to_node),
               IngestRelType(gs.relationships[ri].type), <<0, ri>>)]

(***************************************************************************)
(* The graph store.  A node is [key, made, label, id, node_id, props, tag] *)
(* and an edge [by, q, tag, type, src, dst].  key, made, by, q and tag     *)
(* record which query of which request created the element; label, id,     *)
(* node_id, props, type, src and dst are what the store holds.  id = 0 is  *)
(* a node without an id property.                                          *)
(***************************************************************************)
NodeAt(key) == CHOOSE n \in nodes : n.key = key

\* MATCH (d:<label>) with no id in the pattern: every document of the store.
DocMatchesAnyId(label, id) == {d \in nodes : d.label = label}

\* MATCH (d:<label> {id: $document_id})
DocMatches(label, id) == {d \in nodes : d.label = label /\ d.id = id}

\* MATCH (x {node_id: nid})<-[:CONTAINS]-(d)
ContainedWithId(d, nid) ==
  {c.dst : c \in {c \in edges : c.type = CONTAINS /\ c.src = d.key
                                  /\ NodeAt(c.dst).node_id = nid}}

\* Source and target matched by node_id alone, in no Document's scope.
RelRowsUnscoped(label, id, s, t) ==
  {<<a.key, b.key>> : a \in {n \in nodes : n.node_id = s},
                      b \in {n \in nodes : n.node_id = t}}

\* The (source, target) rows of a relationship query.  An entity node is the
\* target of one CONTAINS edge of its Document, the one created with it, so a
\* row is determined by its two nodes.
RelRows(label, id, s, t) ==
  UNION {{<<a, b>> : a \in ContainedWithId(d, s), b \in ContainedWithId(d, t)} :
           d \in DocMatches(label, id)}

NewNodes(r, k, q) ==
  CASE q.q = "doc" ->
         {[key |-> <<r, k>>, made |-> "doc", label |-> q.doc, id |-> r,
           node_id |-> "", props |-> q.props, tag |-> <<>>]}
    [] q.q = "ent" ->
         {[key |-> <<r, k, d.key>>, made |-> "ent", label |-> q.label, id |-> 0,
           node_id |-> q.node_id, props |-> q.props, tag |-> q.tag] :
            d \in DocMatches(q.doc, r)}
    [] OTHER -> {}

NewEdges(r, k, q) ==
  CASE q.q = "ent" ->
         {[by |-> r, q |-> k, tag |-> <<>>, type |-> CONTAINS,
           src |-> d.key, dst |-> <<r, k, d.key>>] : d \in DocMatches(q.doc, r)}
    [] q.q = "rel" ->
         {[by |-> r, q |-> k, tag |-> q.tag, type |-> q.type,
           src |-> row[1], dst |-> row[2]] : row \in RelRows(q.doc, r, q.src, q.tgt)}
    [] OTHER -> {}

(***************************************************************************)
(* Requests.  Request r ingests the document with the generated id r       *)
(* (uuid4).  req[r].plan is the sequence of queries of the request and     *)
(* req[r].at the index of the next one.  args[r] is a history variable:    *)
(* the arguments of the call, kept where a claim relates the graph to them.*)
(***************************************************************************)
\* A property the node does not have; a request field that was not sent.
NoValue == "null"

Idle ==
  [path |-> "none", pc |-> "idle", plan |-> <<>>, at |-> 0,
   status |-> "none", cause |-> "none", document_id |-> 0,
   extract |-> "none", model_calls |-> 0, s3_key |-> NoValue]

NoArgs == <<>>

\* Requests are numbered in the order in which they start.
MayStart(r) ==
  /\ req[r].pc = "idle"
  /\ \A o \in Requests : o < r => req[o].pc # "idle"

Record(r, in, keep) == IF keep THEN [args EXCEPT ![r] = in] ELSE args

\* The call of create_dynamic_knowledge_graph with its arguments.
create_dynamic_knowledge_graph(r, inputs, keep) ==
  /\ MayStart(r)
  /\ \E in \in inputs :
       /\ req' = [req EXCEPT ![r] = [Idle EXCEPT !.path = "dynamic", !.pc = "run",
                                                  !.plan = DynPlan(in), !.at = 1]]
       /\ args' = Record(r, in, keep)
  /\ UNCHANGED <<nodes, edges, probe, rag>>

\* f"documents/{str(uuid.uuid4())}.pdf"
S3Key(r) == <<"documents/1.pdf", "documents/2.pdf", "documents/3.pdf">>[r]

\* s3_key after step 1: None where the upload is skipped (no client, or not a
\* PDF), the key of the uploaded file otherwise.
S3Keys(r) == {NoValue, S3Key(r)}

\* process_input calls process_document; step 1, the upload of the PDF to S3,
\* is skipped or succeeds.
process_input(r) ==
  /\ MayStart(r)
  /\ \E k \in S3Keys(r) :
       req' = [req EXCEPT ![r] = [Idle EXCEPT !.path = "ingest", !.pc = "extract",
                                              !.s3_key = k]]
  /\ UNCHANGED <<nodes, edges, args, probe, rag>>

\* process_document: opening or uploading the file raised.
process_document_upload_fails(r) ==
  /\ MayStart(r)
  /\ req' = [req EXCEPT ![r] = [Idle EXCEPT !.path = "ingest", !.pc = "done",
                                             !.status = "error", !.cause = "s3"]]
  /\ UNCHANGED <<nodes, edges, args, probe, rag>>

\* The ways preprocess_document comes to return "": a text input or a PDF
\* without text, fitz raising, an input type that is neither.
NoTextOutcomes == {"empty", "fitz_error", "other_type"}

\* preprocess_document returned text.
preprocess_document(r) ==
  /\ req[r].pc = "extract"
  /\ req' = [req EXCEPT ![r] = [req[r] EXCEPT !.pc = "model", !.extract = "text"]]
  /\ UNCHANGED <<nodes, edges, args, probe, rag>>

\* The test of the text is missing: the empty text goes on to the model.
process_document_no_text_unchecked(r) ==
  /\ req[r].pc = "extract"
  /\ \E o \in NoTextOutcomes :
       req' = [req EXCEPT ![r] = [req[r] EXCEPT !.pc = "model", !.extract = o]]
  /\ UNCHANGED <<nodes, edges, args, probe, rag>>

\* process_document: preprocess_document returned no text.
process_document_no_text(r) ==
  /\ req[r].pc = "extract"
  /\ \E o \in NoTextOutcomes :
       req' = [req EXCEPT ![r] = [req[r] EXCEPT !.pc = "done", !.extract = o,
                                               !.status = "error", !.cause = "text"]]
  /\ UNCHANGED <<nodes, edges, args, probe, rag>>

\* process_document: the model call raised, or its reply was not JSON.
process_document_model_fails(r) ==
  /\ req[r].pc = "model"
  /\ req' = [req EXCEPT ![r] = [req[r] EXCEPT !.pc = "done", !.model_calls = @ + 1,
                                               !.status = "error", !.cause = "model"]]
  /\ UNCHANGED <<nodes, edges, args, probe, rag>>

\* process_document up to step 3: model called, graph_structure parsed.
process_document(r, structures, keep) ==
  /\ req[r].pc = "model"
  /\ \E gs \in structures :
       /\ req' = [req EXCEPT ![r] = [req[r] EXCEPT !.pc = "run", !.model_calls = @ + 1,
                                                   !.plan = IngestPlan(gs), !.at = 1]]
       /\ args' = Record(r, gs, keep)
  /\ UNCHANGED <<nodes, edges, probe, rag>>

\* What the caller sees when every query has run: document_id, and s3_key as
\* step 1 left it.
Returned(r) ==
  [req[r] EXCEPT !.pc = "done", !.status = "ok", !.at = @ + 1,
                 !.document_id = IF req[r].path = "ingest" THEN r ELSE 0]

\* One session.run that succeeds.
session_run(r) ==
  /\ req[r].pc = "run"
  /\ LET q == req[r].plan[req[r].at]
     IN  /\ q.q # "raise"
         /\ nodes' = nodes \cup NewNodes(r, req[r].at, q)
         /\ edges' = edges \cup NewEdges(r, req[r].at, q)
  /\ req' = [req EXCEPT ![r] = IF req[r].at = Len(req[r].plan) THEN Returned(r)
                               ELSE [req[r] EXCEPT !.at = @ + 1]]
  /\ UNCHANGED <<args, probe, rag>>

\* process_document returns {"error": ...}; create_dynamic_knowledge_graph
\* lets the exception out.
Failed(r, cause) ==
  [req[r] EXCEPT !.pc = "done", !.cause = cause,
                 !.status = IF req[r].path = "ingest" THEN "error" ELSE "raised"]

\* The failing query is undone together with everything the request wrote.
session_run_fails_rollback(r) ==
  /\ req[r].pc = "run"
  /\ req[r].plan[req[r].at].q # "raise"
  /\ req' = [req EXCEPT ![r] = Failed(r, "store")]
  /\ nodes' = {n \in nodes : n.key[1] # r}
  /\ edges' = {e \in edges : e.by # r}
  /\ UNCHANGED <<args, probe, rag>>

\* One session.run that raises: the store changes nothing.
session_run_fails(r) ==
  /\ req[r].pc = "run"
  /\ req[r].plan[req[r].at].q # "raise"
  /\ req' = [req EXCEPT ![r] = Failed(r, "store")]
  /\ UNCHANGED <<nodes, edges, args, probe, rag>>

\* A Python exception between two queries.
python_raises(r) ==
  /\ req[r].pc = "run"
  /\ req[r].plan[req[r].at].q = "raise"
  /\ req' = [req EXCEPT ![r] = Failed(r, "python")]
  /\ UNCHANGED <<nodes, edges, args, probe, rag>>

NoProbe == [site |-> "none", stage |-> "none", in |-> Null, out |-> Null, out2 |-> Null]

(***************************************************************************)
(* The document side: the singletons vector_db and document_service, and   *)
(* what they keep outside themselves: the Chroma collection of the persist *)
(* directory, the Chroma collection in memory, and the metadata files of   *)
(* the upload directory.  _vector_store is no value or names one of the    *)
(* two collections.  A collection is the set of the chunks added to it.    *)
(***************************************************************************)
Persistent == "persistent"
InMemory == "in_memory"

\* VectorDatabase.__init__ followed by a connect() that succeeded.
Connected == [_vector_store |-> Persistent]

\* Empty collections and an upload directory without metadata files.
EmptyStores == [persistent |-> {}, in_memory |-> {}, upload_dir |-> {}]

\* DocumentService.__init__: self.fallback_documents = [].
NewDocumentService == [fallback_documents |-> <<>>]

RagIdle ==
  /\ vector_db = Connected
  /\ stores = EmptyStores
  /\ document_service = NewDocumentService

Init ==
  /\ nodes = {}
  /\ edges = {}
  /\ req = [r \in Requests |-> Idle]
  /\ args = [r \in Requests |-> NoArgs]
  /\ probe = NoProbe
  /\ RagIdle

(***************************************************************************)
(* Spec: MaxReq ingestions interleaved, of inputs with at most ConcSchema  *)
(* schema elements and lists of at most ConcList instances.                *)
(***************************************************************************)
ConcSchema == 2
ConcList == 1

\* The inputs of the interleaved requests.
ConcInputs == DynInputs(ConcSchema, ConcList)
ConcStructures == GraphStructures(ConcSchema, ConcList)

Next ==
  \E r \in Requests :
     \/ create_dynamic_knowledge_graph(r, ConcInputs, FALSE)
     \/ process_input(r)
     \/ process_document_upload_fails(r)
     \/ preprocess_document(r)
     \/ process_document_no_text(r)
     \/ process_document_model_fails(r)
     \/ process_document(r, ConcStructures, FALSE)
     \/ session_run(r)
     \/ session_run_fails(r)
     \/ python_raises(r)

Spec == Init /\ [][Next]_vars

(***************************************************************************)
(* SpecSingle: one ingestion, of inputs with at most MaxSchema schema      *)
(* elements and lists of at most MaxList instances, its arguments kept.    *)
(***************************************************************************)
\* The inputs of the single request.
SingleInputs == DynInputs(MaxSchema, MaxList)
SingleStructures == GraphStructures(MaxSchema, MaxList)

NextSingle ==
  \/ create_dynamic_knowledge_graph(1, SingleInputs, TRUE)
  \/ process_input(1)
  \/ process_document_upload_fails(1)
  \/ preprocess_document(1)
  \/ process_document_no_text(1)
  \/ process_document_model_fails(1)
  \/ process_document(1, SingleStructures, TRUE)
  \/ session_run(1)
  \/ session_run_fails(1)
  \/ python_raises(1)

SpecSingle == Init /\ [][NextSingle]_vars

(***************************************************************************)
(* SpecNorm: normalize_value applied to an extracted value, then to its    *)
(* own result.                                                             *)
(***************************************************************************)
GraphIdle ==
  /\ nodes = {}
  /\ edges = {}
  /\ req = [r \in Requests |-> Idle]
  /\ args = [r \in Requests |-> NoArgs]
  /\ RagIdle

InitNorm ==
  /\ GraphIdle
  /\ \E v \in NormInputs :
       probe = [site |-> "normalize_value", stage |-> "in", in |-> v,
                out |-> Null, out2 |-> Null]

NormalizeOnce ==
  /\ probe.stage = "in"
  /\ probe' = [probe EXCEPT !.stage = "out", !.out = normalize_value(probe.in)]
  /\ UNCHANGED <<nodes, edges, req, args, rag>>

NormalizeAgain ==
  /\ probe.stage = "out"
  /\ probe' = [probe EXCEPT !.stage = "again", !.out2 = normalize_value(probe.out)]
  /\ UNCHANGED <<nodes, edges, req, args, rag>>

NextNorm == NormalizeOnce \/ NormalizeAgain

SpecNorm == InitNorm /\ [][NextNorm]_vars

(***************************************************************************)
(* SpecIdent: a model-supplied string reaches one of the sites that        *)
(* interpolate an identifier into a query; the identifier is then          *)
(* sanitized once more.                                                    *)
(***************************************************************************)
InitIdent ==
  /\ GraphIdle
  /\ \E s \in IdentInputs :
       probe = [site |-> "none", stage |-> "in", in |-> StrV(s),
                out |-> Null, out2 |-> Null]

Interpolate(site, ident) ==
  /\ probe.stage = "in"
  /\ probe' = [probe EXCEPT !.site = site, !.stage = "out", !.out = StrV(ident)]
  /\ UNCHANGED <<nodes, edges, req, args, rag>>

AtEntityLabel == Interpolate("_create_entity_node.label", EntityLabel(probe.in.s))
AtDynRelType == Interpolate("_create_relationship.type", DynRelType(probe.in.s))
AtIngestLabel == Interpolate("process_document.label", IngestLabel(probe.in.s))
AtIngestRelType == Interpolate("process_document.type", IngestRelType(probe.in.s))
AtSearchLabel == Interpolate("semantic_search_graph.label", SearchLabel(probe.in.s))
AtSearchRelType == Interpolate("semantic_search_graph.type", SearchRelType(probe.in.s))

SanitizeAgain ==
  /\ probe.stage = "out"
  /\ probe' = [probe EXCEPT !.stage = "again", !.out2 = StrV(sanitize(probe.out.s))]
  /\ UNCHANGED <<nodes, edges, req, args, rag>>

NextIdent ==
  \/ AtEntityLabel
  \/ AtDynRelType
  \/ AtIngestLabel
  \/ AtIngestRelType
  \/ AtSearchLabel
  \/ AtSearchRelType
  \/ SanitizeAgain

SpecIdent == InitIdent /\ [][NextIdent]_vars

(***************************************************************************)
(* Vocabulary of the claims.                                               *)
(***************************************************************************)
EntityNodes == {n \in nodes : n.made = "ent"}
DocumentNodes == {n \in nodes : n.made = "doc"}

\* The edges created by relationship queries.
RelationshipEdges == {e \in edges : e.tag # <<>>}

\* The edges of relationship ri of schema entity ei, created by request r.
RelEdges(r, ei, ri) == {e \in edges : e.by = r /\ e.tag = <<ei, ri>>}

\* The CONTAINS edges that reach node n from a Document node.
ContainmentOf(n) ==
  {c \in edges : c.type = CONTAINS /\ c.dst = n.key /\ NodeAt(c.src).made = "doc"}

\* The nodes a Document node contains.
ContainedIn(d) == {NodeAt(c.dst) : c \in {c \in edges : c.type = CONTAINS /\ c.src = d.key}}

\* The number of instances of one key of the extracted data.
Count(shape) == IF shape.kind = "list" THEN Len(shape.items) ELSE 1

Present(in, name) == in.data[name].kind # "absent"

Declared(in, name) == \E ei \in DOMAIN in.entities : in.entities[ei].name = name

Dynamic(r) == req[r].path = "dynamic"
Ingest(r) == req[r].path = "ingest"

(***************************************************************************)
(* C1: for every relationship of the schema whose source and target names  *)
(* are both keys of the extracted data, a completed                        *)
(* create_dynamic_knowledge_graph has added exactly m*n edges (m, n the    *)
(* list sizes, 1 for a scalar).  The statement of the claim; SpecSingle.   *)
(***************************************************************************)
C1_ExactlyMTimesN ==
  \A r \in Requests :
     Dynamic(r) /\ req[r].status = "ok" =>
       \A ei \in DOMAIN args[r].entities :
          \A ri \in DOMAIN args[r].entities[ei].relationships :
             LET source == args[r].entities[ei].name
                 target == args[r].entities[ei].relationships[ri].related_to
             IN  Present(args[r], source) /\ Present(args[r], target) =>
                   Cardinality(RelEdges(r, ei, ri))
                     = Count(args[r].data[source]) * Count(args[r].data[target])

(***************************************************************************)
(* C2: every Entity node has exactly one CONTAINS edge from a Document     *)
(* node, and that Document carries the id of the ingestion that created    *)
(* the entity.  Spec.                                                      *)
(***************************************************************************)
C2_OneContainment ==
  \A n \in EntityNodes :
     /\ Cardinality(ContainmentOf(n)) = 1
     /\ \A c \in ContainmentOf(n) :
          NodeAt(c.src).id = n.key[1] /\ NodeAt(c.src).key[1] = n.key[1]

\* Two ingestions have created entities, and a CONTAINS-typed relationship
\* edge reaches one of them from another entity.
C2_Witness ==
  /\ \A r \in Requests : \E n \in EntityNodes : n.key[1] = r
  /\ \E e \in RelationshipEdges : e.type = CONTAINS /\ NodeAt(e.dst).made = "ent"

(***************************************************************************)
(* C3: every identifier interpolated into a query, at every site, consists *)
(* of characters of [A-Za-z0-9_] only.  The statement of the claim;        *)
(* SpecIdent.                                                              *)
(***************************************************************************)
C3_InterpolatedSafe == probe.stage = "out" => AllSafe(probe.out.s)

(***************************************************************************)
(* C4: sanitizing a sanitized identifier changes nothing, at the three     *)
(* sites that sanitize; and where the identifier is the sanitized input    *)
(* (the two label sites), an input of safe characters is its own           *)
(* identifier.  SpecIdent.                                                 *)
(***************************************************************************)
LabelSites == {"_create_entity_node.label", "process_document.label"}
SanitizingSites == LabelSites \cup {"process_document.type"}

C4_SanitizeIdempotent ==
  /\ probe.stage = "again" /\ probe.site \in SanitizingSites => probe.out2 = probe.out
  /\ probe.stage = "out" /\ probe.site \in LabelSites /\ AllSafe(probe.in.s)
       => probe.out = probe.in

\* A label with an unsafe character has been sanitized twice.
C4_Witness ==
  /\ probe.stage = "again"
  /\ probe.site = "_create_entity_node.label"
  /\ ~AllSafe(probe.in.s)
  /\ \E i \in DOMAIN probe.in.s : probe.in.s[i] \in SafeChars

(***************************************************************************)
(* C5: normalize_value applied to its own result returns that result, and  *)
(* a numeric value is returned unchanged.  SpecNorm.                       *)
(***************************************************************************)
C5_NormalizeIdempotent ==
  /\ probe.stage = "again" => probe.out2 = probe.out
  /\ probe.stage = "out" /\ probe.in.k = "num" => probe.out = probe.in

\* A padded currency string became a number, and stayed that number.
C5_Witness ==
  /\ probe.stage = "again"
  /\ probe.in.k = "str" /\ probe.in.s # strip(probe.in.s)
  /\ probe.out.k = "num" /\ probe.out.n > 0

(***************************************************************************)
(* C6: a relationship of the schema whose source or target name is not a   *)
(* key of the extracted data gets no edge and raises nothing (the only     *)
(* Python error of a call is that of an entity whose data is null), and a  *)
(* call that returns has created a node for every instance of every        *)
(* declared entity that is present, and edges for every relationship       *)
(* between two of them.  SpecSingle.                                       *)
(***************************************************************************)
AbsentEnd(in, ei, ri) ==
  \/ ~Present(in, in.entities[ei].name)
  \/ ~Present(in, in.entities[ei].relationships[ri].related_to)

NullDeclared(in) ==
  \E ei \in DOMAIN in.entities : in.data[in.entities[ei].name].kind = "null"

Materialized(r, in, ei) ==
  Cardinality({n \in EntityNodes : n.key[1] = r /\ n.tag = <<ei>>})
    = Count(in.data[in.entities[ei].name])

C6_AbsentEntitySkipped ==
  \A r \in Requests :
     Dynamic(r) =>
       /\ \A ei \in DOMAIN args[r].entities :
            \A ri \in DOMAIN args[r].entities[ei].relationships :
               AbsentEnd(args[r], ei, ri) => RelEdges(r, ei, ri) = {}
       /\ req[r].cause = "python" => NullDeclared(args[r])
       /\ req[r].status = "ok" =>
            \A ei \in DOMAIN args[r].entities :
               LET source == args[r].entities[ei].name
               IN  Present(args[r], source) =>
                     /\ Materialized(r, args[r], ei)
                     /\ \A ri \in DOMAIN args[r].entities[ei].relationships :
                          LET target == args[r].entities[ei].relationships[ri].related_to
                          IN  /\ Present(args[r], target)
                              /\ Declared(args[r], target)
                              /\ Count(args[r].data[source]) > 0
                              /\ Count(args[r].data[target]) > 0
                              => RelEdges(r, ei, ri) # {}

\* A call has returned: one relationship named an absent entity and has no
\* edge, another relationship has its edge, and the entities have their nodes.
C6_Witness ==
  \E r \in Requests :
     /\ Dynamic(r) /\ req[r].status = "ok"
     /\ \E ei \in DOMAIN args[r].entities :
          \E ri \in DOMAIN args[r].entities[ei].relationships :
             /\ AbsentEnd(args[r], ei, ri)
             /\ Present(args[r], args[r].entities[ei].name)
             /\ Materialized(r, args[r], ei)
     /\ \E e \in RelationshipEdges : e.by = r

(***************************************************************************)
(* C7: the entities one Document contains have pairwise distinct node_id   *)
(* values.  The statement of the claim; SpecSingle.                        *)
(***************************************************************************)
C7_NodeIdsDistinct ==
  \A d \in DocumentNodes :
     \A a, b \in ContainedIn(d) : a.node_id = b.node_id => a = b

(***************************************************************************)
(* C8: every edge a relationship query created joins two nodes that the    *)
(* Document of the creating ingestion contains; no such edge joins nodes   *)
(* of two ingestions.  Spec.                                               *)
(***************************************************************************)
C8_EdgesWithinDocument ==
  \A e \in RelationshipEdges :
     /\ \E d \in DocumentNodes :
          /\ d.id = e.by /\ d.key[1] = e.by
          /\ NodeAt(e.src) \in ContainedIn(d)
          /\ NodeAt(e.dst) \in ContainedIn(d)
     /\ NodeAt(e.src).key[1] = NodeAt(e.dst).key[1]

\* Two ingestions whose entities share a node_id have each created a
\* relationship edge.
C8_Witness ==
  \E a, b \in EntityNodes :
     /\ a.key[1] # b.key[1] /\ a.node_id = b.node_id
     /\ \E e \in RelationshipEdges : e.by = a.key[1] /\ e.src = a.key
     /\ \E e \in RelationshipEdges : e.by = b.key[1] /\ e.src = b.key

(***************************************************************************)
(* C9: no Entity node stores a string that normalize_value would turn into *)
(* something else (a currency-like string is stored as its number), and an *)
(* ingestion of one entity that returned has produced one Document node,   *)
(* one Entity node and one CONTAINS edge.  The statement of the claim;     *)
(* SpecSingle.                                                             *)
(***************************************************************************)
C9_StoredNormalized ==
  /\ \A n \in EntityNodes : normalize_value(n.props.unit_price) = n.props.unit_price
  /\ \A r \in Requests :
       Ingest(r) /\ req[r].status = "ok" /\ Len(args[r].entities) = 1 =>
         /\ Cardinality({n \in DocumentNodes : n.key[1] = r}) = 1
         /\ Cardinality({n \in EntityNodes : n.key[1] = r}) = 1
         /\ Cardinality({e \in edges : e.by = r /\ e.tag = <<>>}) = 1

(***************************************************************************)
(* C10: the step in which a query of an ingestion fails ends the ingestion *)
(* as failed (process_document: an error outcome and no document_id;       *)
(* create_dynamic_knowledge_graph: the exception) and changes nothing in   *)
(* the graph; from then on the ingestion takes no step and writes nothing; *)
(* and no step of anyone removes a node or an edge.  Spec.                 *)
(***************************************************************************)
WrittenBy(r, ns, es) == <<{n \in ns : n.key[1] = r}, {e \in es : e.by = r}>>

FailsNow(r) == req[r].cause # "store" /\ req'[r].cause = "store"

C10_WriteFailureIsFatal ==
  [][/\ nodes \subseteq nodes' /\ edges \subseteq edges'
     /\ \A r \in Requests :
          /\ FailsNow(r) =>
               /\ req'[r].pc = "done"
               /\ req'[r].status = IF Ingest(r) THEN "error" ELSE "raised"
               /\ req'[r].document_id = 0
               /\ nodes' = nodes /\ edges' = edges
          /\ req[r].cause = "store" =>
               /\ req'[r] = req[r]
               /\ WrittenBy(r, nodes', edges') = WrittenBy(r, nodes, edges)]_vars

\* An ingestion failed at a query after it had written an entity, which is
\* still there, while the other ingestion ran to its end.
C10_Witness ==
  \E r, o \in Requests :
     /\ req[r].cause = "store" /\ req[r].at >= 3
     /\ \E n \in EntityNodes : n.key[1] = r
     /\ o # r /\ req[o].status = "ok"

(***************************************************************************)
(* C11: an ingestion whose text extraction failed or gave no text has      *)
(* ended with the error outcome of the missing text, has called the model  *)
(* zero times and has written nothing to the graph.  Spec.                 *)
(***************************************************************************)
C11_NoTextHaltsPipeline ==
  \A r \in Requests :
     req[r].extract \in NoTextOutcomes =>
       /\ req[r].pc = "done" /\ req[r].status = "error" /\ req[r].cause = "text"
       /\ req[r].document_id = 0
       /\ req[r].model_calls = 0
       /\ WrittenBy(r, nodes, edges) = <<{}, {}>>

\* fitz raised in one ingestion, while another ingestion got its text,
\* called the model and wrote to the graph.
C11_Witness ==
  \E r, o \in Requests :
     /\ req[r].extract = "fitz_error" /\ req[r].pc = "done"
     /\ req[o].extract = "text" /\ req[o].model_calls = 1
     /\ \E n \in nodes : n.key[1] = o

(***************************************************************************)
(* C12: no request ends in an error outcome because its model call failed  *)
(* or its reply was not JSON.  The statement of the claim, at the call     *)
(* site of process_document; Spec.                                         *)
(***************************************************************************)
C12_ModelFailureRecovered ==
  \A r \in Requests : req[r].model_calls > 0 /\ req[r].status = "error" => req[r].cause # "model"

(***************************************************************************)
(* The language model, as its callers see it: the call raises, or the      *)
(* reply has no content or content that is not JSON (json.loads raises),   *)
(* or the content parses to a JSON value.                                  *)
(***************************************************************************)
ModelFailures == {[kind |-> k, value |-> Null] : k \in {"raises", "no_content", "malformed"}}

ModelReplies(values) == {[kind |-> "json", value |-> v] : v \in values}

ModelOutcomes(values) == ModelFailures \cup ModelReplies(values)

Return(v) == [raised |-> FALSE, value |-> v]
Raise == [raised |-> TRUE, value |-> Null]

(***************************************************************************)
(* identify_document_type.                                                 *)
(***************************************************************************)
DocumentTypes == {"invoice", "unknown"}

\* The replies of schema inference: schemas of the requested shape, and a
\* JSON object of another shape.
SchemaReplies ==
  {[document_type |-> t, entities |-> es, primary_identifiers |-> ids] :
     t \in DocumentTypes, es \in Schemas(MaxSchema),
     ids \in {<<>>, <<"invoice_number">>}}
  \cup {[message |-> "no schema"]}

UnknownSchema == [document_type |-> "unknown", entities |-> <<>>, primary_identifiers |-> <<>>]

\* json.loads stands outside the try block.
IdentifyParsesUnguarded(o) ==
  IF o.kind = "json" THEN Return(o.value)
  ELSE IF o.kind = "raises" THEN Return(UnknownSchema)
  ELSE Raise

identify_document_type_result(o) ==
  IF o.kind = "json" THEN Return(o.value) ELSE Return(UnknownSchema)

InitInfer ==
  /\ GraphIdle
  /\ \E o \in ModelOutcomes(SchemaReplies) :
       probe = [NoProbe EXCEPT !.site = "identify_document_type", !.stage = "in", !.in = o]

identify_document_type ==
  /\ probe.stage = "in"
  /\ probe' = [probe EXCEPT !.stage = "out", !.out = identify_document_type_result(probe.in)]
  /\ UNCHANGED <<nodes, edges, req, args, rag>>

NextInfer == identify_document_type

SpecInfer == InitInfer /\ [][NextInfer]_vars

(***************************************************************************)
(* C13: identify_document_type never raises, and when the model call       *)
(* failed or the reply was not JSON it returns the unknown schema with no  *)
(* entities and no primary identifiers.  SpecInfer.                        *)
(***************************************************************************)
C13_UnknownSchemaOnFailure ==
  probe.stage = "out" =>
    /\ ~probe.out.raised
    /\ probe.in.kind # "json" => probe.out.value = UnknownSchema

\* The reply was not JSON and the unknown schema came back.
C13_Witness ==
  /\ probe.stage = "out"
  /\ probe.in.kind = "malformed"
  /\ probe.out = Return(UnknownSchema)

(***************************************************************************)
(* analyze_query_intent.                                                   *)
(***************************************************************************)
\* str.lower() on one character.
LowerChar(c) ==
  IF c \in Upper THEN LowerSeq[CHOOSE i \in DOMAIN UpperSeq : UpperSeq[i] = c]
  ELSE c

lower(s) == MapChars(LowerChar, s)

\* term in s, of Python strings.
Occurs(term, s) ==
  \E i \in 0..(Len(s) - Len(term)) : SubSeq(s, i + 1, i + Len(term)) = term

\* any(term in query_lower for term in terms)
AnyTermIn(terms, s) == \E t \in terms : Occurs(t, s)

PriceTerms ==
  {<<"p","r","i","c","e">>,
   <<"t","o","t","a","l">>,
   <<"a","m","o","u","n","t">>,
   <<"c","o","s","t">>,
   <<"h","o","w"," ","m","u","c","h">>}

InvoiceNumberTerms ==
  {<<"i","n","v","o","i","c","e"," ","n","u","m","b","e","r">>,
   <<"i","n","v","o","i","c","e"," ","i","d">>,
   <<"i","n","v","o","i","c","e"," ","#">>}

DateTerms ==
  {<<"d","a","t","e">>,
   <<"w","h","e","n">>,
   <<"t","i","m","e">>,
   <<"i","s","s","u","e","d">>}

ProductTerms ==
  {<<"p","r","o","d","u","c","t">>,
   <<"i","t","e","m">>,
   <<"l","i","n","e"," ","i","t","e","m">>,
   <<"d","e","t","a","i","l","s">>,
   <<"w","h","a","t","'","s"," ","i","n","c","l","u","d","e","d">>}

Intent(type, fields) == [type |-> type, fields |-> fields]

default_intent == Intent("general", <<"total_amount", "date", "line_items">>)

\* The invoice-number terms are tested before the price terms.
KeywordIntentInvoiceFirst(query_lower) ==
  IF AnyTermIn(InvoiceNumberTerms, query_lower) THEN Intent("invoice_number", <<>>)
  ELSE IF AnyTermIn(PriceTerms, query_lower) THEN Intent("price", <<"total_amount">>)
  ELSE IF AnyTermIn(DateTerms, query_lower) THEN Intent("date", <<"date">>)
  ELSE IF AnyTermIn(ProductTerms, query_lower) THEN Intent("product_details", <<"line_items">>)
  ELSE default_intent

\* The rule-based fallback.
keyword_intent(query_lower) ==
  IF AnyTermIn(PriceTerms, query_lower) THEN Intent("price", <<"total_amount">>)
  ELSE IF AnyTermIn(InvoiceNumberTerms, query_lower) THEN Intent("invoice_number", <<>>)
  ELSE IF AnyTermIn(DateTerms, query_lower) THEN Intent("date", <<"date">>)
  ELSE IF AnyTermIn(ProductTerms, query_lower) THEN Intent("product_details", <<"line_items">>)
  ELSE default_intent

\* What analyze_query_intent returns, and by which of its two ways.
analyze_query_intent_result(query, o) ==
  IF o.kind = "json" THEN [value |-> o.value, by |-> "model"]
  ELSE [value |-> keyword_intent(lower(query)), by |-> "keywords"]

\* The queries: at most MaxQueryWords phrases with spaces between them.
MaxQueryWords == 2

QueryPhrases ==
  {<<"W","h","a","t"," ","i","s"," ","t","h","e"," ","t","o","t","a","l"," ","a","m","o","u","n","t","?">>,
   <<"I","n","v","o","i","c","e"," ","#">>,
   <<"W","H","E","N">>,
   <<"S","o","m","e","t","i","m","e","s">>,
   <<"i","t","e","m","s">>,
   <<"h","e","l","l","o">>,
   <<"H","o","w"," ","M","u","c","h">>,
   <<"w","h","a","t","'","s"," ","i","n","c","l","u","d","e","d">>}

RECURSIVE JoinWords(_)
JoinWords(ws) ==
  IF ws = <<>> THEN <<>>
  ELSE IF Len(ws) = 1 THEN ws[1]
  ELSE ws[1] \o <<" ">> \o JoinWords(Tail(ws))

Queries == {JoinWords(ws) : ws \in SeqsUpTo(QueryPhrases, MaxQueryWords)}

\* The replies of intent classification: the five intents of the prompt, and
\* JSON objects the prompt did not ask for.
IntentReplies ==
  {Intent("price", <<"total_amount">>),
   Intent("invoice_number", <<>>),
   Intent("date", <<"date">>),
   Intent("product_details", <<"line_items">>),
   default_intent,
   Intent("price", <<"total_amount", "date">>),
   Intent("summary", <<"line_items">>),
   Intent("date", <<"due_date">>)}

InitIntent ==
  /\ GraphIdle
  /\ \E q \in Queries, o \in ModelOutcomes(IntentReplies) :
       probe = [NoProbe EXCEPT !.site = "analyze_query_intent", !.stage = "in",
                               !.in = [query |-> q, model |-> o]]

analyze_query_intent ==
  /\ probe.stage = "in"
  /\ probe' = [probe EXCEPT !.stage = "out",
                            !.out = analyze_query_intent_result(probe.in.query, probe.in.model)]
  /\ UNCHANGED <<nodes, edges, req, args, rag>>

NextIntent == analyze_query_intent

SpecIntent == InitIntent /\ [][NextIntent]_vars

(***************************************************************************)
(* The categories of the specification, in the priority order of the       *)
(* keyword fallback, with their vocabularies and field-inclusion sets.     *)
(***************************************************************************)
Priority == <<"price", "invoice_number", "date", "product_details">>

Vocabulary(category) ==
  CASE category = "price" -> PriceTerms
    [] category = "invoice_number" -> InvoiceNumberTerms
    [] category = "date" -> DateTerms
    [] category = "product_details" -> ProductTerms

Categories == Range(Priority) \cup {"general"}

FieldInclusion(category) ==
  CASE category = "price" -> {"total_amount"}
    [] category = "invoice_number" -> {}
    [] category = "date" -> {"date"}
    [] category = "product_details" -> {"line_items"}
    [] category = "general" -> {"total_amount", "date", "line_items"}

\* Term t occurs in s at position i, letter case ignored.
OccursAt(t, s, i) ==
  /\ i + Len(t) - 1 <= Len(s)
  /\ \A k \in 1..Len(t) : LowerChar(s[i + k - 1]) = t[k]

Matching(query) ==
  {c \in DOMAIN Priority :
     \E t \in Vocabulary(Priority[c]) : \E i \in 1..Len(query) : OccursAt(t, query, i)}

FirstCategory(query) ==
  IF Matching(query) = {} THEN "general"
  ELSE Priority[CHOOSE c \in Matching(query) : \A d \in Matching(query) : c <= d]

(***************************************************************************)
(* C14: when the model call has failed, the intent is the first category   *)
(* in the order price, invoice number, date, product details that has a    *)
(* term occurring in the query, letter case ignored, and general if none   *)
(* has, with the fields of that category; and the keywords decide only     *)
(* when the model call has failed.  SpecIntent.                            *)
(***************************************************************************)
C14_KeywordFallbackPriority ==
  probe.stage = "out" =>
    /\ probe.in.model.kind # "json" =>
         /\ probe.out.by = "keywords"
         /\ probe.out.value.type = FirstCategory(probe.in.query)
         /\ Range(probe.out.value.fields) = FieldInclusion(probe.out.value.type)
    /\ probe.out.by = "keywords" => probe.in.model.kind # "json"

\* "What is the total amount? Invoice #": the model call raised, and the
\* query, which has a price term and an invoice-number term, is a price query.
C14_Witness ==
  /\ probe.stage = "out"
  /\ probe.in.model.kind = "raises"
  /\ probe.in.query = <<"W","h","a","t"," ","i","s"," ","t","h","e"," ","t","o","t","a","l"," ","a","m","o","u","n","t","?"," ","I","n","v","o","i","c","e"," ","#">>
  /\ probe.out.value = Intent("price", <<"total_amount">>)

(***************************************************************************)
(* C15: every intent analyze_query_intent returns has a type among the     *)
(* five categories and, as fields, the field-inclusion set of that type.   *)
(* The statement of the claim; SpecIntent.                                 *)
(***************************************************************************)
C15_ClosedTaxonomy ==
  probe.stage = "out" =>
    /\ probe.out.value.type \in Categories
    /\ Range(probe.out.value.fields) = FieldInclusion(probe.out.value.type)

(***************************************************************************)
(* simplified_query_kag and generate_text_response.  A row is one record   *)
(* of the search; an item, the projection of a row, is a function from the *)
(* keys it has.                                                            *)
(***************************************************************************)
MaxResults == 3

InvoiceNumbers == {"INV-100", "INV-200"}
Amounts == {"$10.00", "$20.00"}
LineItemLists == {<<>>, <<[description |-> "Widget"]>>}

Rows ==
  {[document_id |-> "d", invoice_number |-> n, date |-> "1/2/2025",
    total_amount |-> a, line_items |-> ls] :
     n \in InvoiceNumbers, a \in Amounts, ls \in LineItemLists}

ResultLists == SeqsUpTo(Rows, MaxResults)

\* The fields the loop over query_intent["fields"] knows.
OptionalFields == {"total_amount", "date", "line_items"}

\* Every key of the row is copied.
ProjectWholeRow(result, intent) == result

\* result_item of one row.
result_item(result, intent) ==
  [k \in {"invoice_number"} \cup
         {f \in OptionalFields : f \in Range(intent.fields) /\ f \in DOMAIN result}
     |-> result[k]]

simplified_response(results, intent) ==
  [query_type |-> intent.type,
   results |-> [i \in DOMAIN results |-> result_item(results[i], intent)]]

\* A dictionary keyed by invoice number: a later result replaces an earlier.
RECURSIVE UniqueKeepingLast(_, _)
UniqueKeepingLast(results, seen) ==
  IF results = <<>> THEN <<>>
  ELSE LET invoice_number == Head(results)["invoice_number"]
           later == {i \in 2..Len(results) : results[i]["invoice_number"] = invoice_number}
           kept == IF later = {} THEN Head(results)
                   ELSE results[CHOOSE i \in later : \A j \in later : j <= i]
       IN  IF invoice_number \in seen THEN UniqueKeepingLast(Tail(results), seen)
           ELSE <<kept>> \o UniqueKeepingLast(Tail(results), seen \cup {invoice_number})

\* The loop over results with the set seen_invoice_numbers.
RECURSIVE unique_results(_, _)
unique_results(results, seen) ==
  IF results = <<>> THEN <<>>
  ELSE LET invoice_number == Head(results)["invoice_number"]
       IN  IF invoice_number \in seen THEN unique_results(Tail(results), seen)
           ELSE <<Head(results)>> \o unique_results(Tail(results), seen \cup {invoice_number})

\* The branch of generate_text_response for a query type.
TemplateOf(query_type) ==
  IF query_type \in {"invoice_number", "price", "date", "product_details"}
  THEN query_type ELSE "general"

\* The sentence, as the template that produced it and the results in it.
Text(template, form, results) == [template |-> template, form |-> form, results |-> results]

\* The singular branch is taken on the length of the raw result list.
RenderOnRawLength(query_type, results, unique) ==
  IF results = <<>> THEN Text("no_match", "none", <<>>)
  ELSE IF Len(results) = 1 THEN Text(TemplateOf(query_type), "singular", unique)
  ELSE Text(TemplateOf(query_type), "plural", unique)

render(query_type, results, unique) ==
  IF results = <<>> THEN Text("no_match", "none", <<>>)
  ELSE IF Len(unique) = 1 THEN Text(TemplateOf(query_type), "singular", unique)
  ELSE Text(TemplateOf(query_type), "plural", unique)

generate_text_response(response_data) ==
  LET unique == unique_results(response_data.results, {})
  IN  [unique |-> unique,
       text |-> render(response_data.query_type, response_data.results, unique)]

InitAnswer ==
  /\ GraphIdle
  /\ \E rs \in ResultLists, i \in IntentReplies, t \in BOOLEAN :
       probe = [NoProbe EXCEPT !.site = "simplified_query_kag", !.stage = "in",
                               !.in = [results |-> rs, intent |-> i, format_as_text |-> t]]

Answer(format_as_text) ==
  LET response == simplified_response(probe.in.results, probe.in.intent)
  IN  probe' = [probe EXCEPT !.stage = IF format_as_text THEN "text" ELSE "json",
                             !.out = response,
                             !.out2 = IF format_as_text THEN generate_text_response(response)
                                      ELSE Null]

simplified_query_kag ==
  /\ probe.stage = "in"
  /\ Answer(probe.in.format_as_text)
  /\ UNCHANGED <<nodes, edges, req, args, rag>>

\* text_query_kag sets format_as_text and calls simplified_query_kag.
text_query_kag ==
  /\ probe.stage = "in"
  /\ Answer(TRUE)
  /\ UNCHANGED <<nodes, edges, req, args, rag>>

NextAnswer == simplified_query_kag \/ text_query_kag

SpecAnswer == InitAnswer /\ [][NextAnswer]_vars

Answered == probe.stage \in {"json", "text"}

(***************************************************************************)
(* C16: every result item has invoice_number and, besides it, only fields  *)
(* of the field-inclusion set of the intent's category.  The statement of  *)
(* the claim; SpecAnswer.                                                  *)
(***************************************************************************)
C16_OnlyIncludedFields ==
  Answered /\ probe.in.intent.type \in Categories =>
    \A i \in DOMAIN probe.out.results :
       /\ "invoice_number" \in DOMAIN probe.out.results[i]
       /\ DOMAIN probe.out.results[i]
            \subseteq {"invoice_number"} \cup FieldInclusion(probe.in.intent.type)

(***************************************************************************)
(* C17: the deduplicated list of generate_text_response is a subsequence   *)
(* of the result list, its invoice numbers are pairwise distinct, every    *)
(* invoice number of the result list is in it, and each of its elements is *)
(* the first result with that invoice number.  SpecAnswer.                 *)
(***************************************************************************)
NumberOf(item) == item["invoice_number"]

IsSubsequence(out, in) ==
  \E f \in [DOMAIN out -> DOMAIN in] :
     /\ \A i, j \in DOMAIN out : i < j => f[i] < f[j]
     /\ \A i \in DOMAIN out : out[i] = in[f[i]]

FirstWith(in, number) ==
  in[CHOOSE i \in DOMAIN in :
       /\ NumberOf(in[i]) = number
       /\ \A j \in DOMAIN in : NumberOf(in[j]) = number => i <= j]

C17_DedupKeepsFirst ==
  probe.stage = "text" =>
    LET in == probe.out.results
        out == probe.out2.unique
    IN  /\ IsSubsequence(out, in)
        /\ \A i, j \in DOMAIN out : NumberOf(out[i]) = NumberOf(out[j]) => i = j
        /\ \A i \in DOMAIN in : \E j \in DOMAIN out : NumberOf(out[j]) = NumberOf(in[i])
        /\ \A j \in DOMAIN out : out[j] = FirstWith(in, NumberOf(out[j]))

\* Three results, the first and the third of one invoice number and of
\* different amounts: two are kept, the first of them the first result.
C17_Witness ==
  /\ probe.stage = "text"
  /\ Len(probe.out.results) = 3
  /\ NumberOf(probe.out.results[1]) = NumberOf(probe.out.results[3])
  /\ probe.out.results[1] # probe.out.results[3]
  /\ NumberOf(probe.out.results[1]) # NumberOf(probe.out.results[2])
  /\ probe.out2.unique = <<probe.out.results[1], probe.out.results[2]>>

(***************************************************************************)
(* C18: the text is the no-match message exactly when there is no result;  *)
(* otherwise it is the template of the category, singular if and only if   *)
(* the results have one invoice number among them, plural otherwise.       *)
(* SpecAnswer.                                                             *)
(***************************************************************************)
NumbersIn(results) == {NumberOf(results[i]) : i \in DOMAIN results}

C18_TemplateByCategoryAndCount ==
  probe.stage = "text" =>
    LET results == probe.out.results
        text == probe.out2.text
    IN  /\ text.template = "no_match" <=> results = <<>>
        /\ results # <<>> =>
             /\ text.form = "singular" <=> Cardinality(NumbersIn(results)) = 1
             /\ text.form = "plural" <=> Cardinality(NumbersIn(results)) > 1
             /\ probe.out.query_type \in Categories => text.template = probe.out.query_type

\* Two rows of one invoice number, a price query: the singular price template.
C18_Witness ==
  /\ probe.stage = "text"
  /\ Len(probe.out.results) = 2
  /\ Cardinality(NumbersIn(probe.out.results)) = 1
  /\ probe.out.query_type = "price"
  /\ probe.out2.text.template = "price" /\ probe.out2.text.form = "singular"

(***************************************************************************)
(* The reads of the API: search behind POST /query, get_document behind    *)
(* GET /document/{document_id}.  Every document of the API is ingested by  *)
(* process_document, through POST /upload-pdf.                             *)
(***************************************************************************)
ApiSchema == 1
ApiList == 1

DocumentNodeReplies ==
  {DocumentNode(t, n) : t \in {"invoice", "contract"}, n \in {"INV-100", NoValue}}

ApiStructures ==
  {[gs EXCEPT !.document_node = dn] :
     gs \in GraphStructures(ApiSchema, ApiList), dn \in DocumentNodeReplies}

\* (item) matched on its own, without (i)-[:CONTAINS]->.
ItemsOfAnyDocument(i) == {n \in nodes : n.made = "ent"}

\* (i:Invoice)-[:CONTAINS]->(item)
ItemsOf(i) == {NodeAt(c.dst) : c \in {c \in edges : c.type = CONTAINS /\ c.src = i.key}}

\* The records of the query of search, one for each Invoice node that has an
\* invoice_number and an item; their order is the store's, so they are a set.
\* The document_type argument takes no part.
search(document_type) ==
  {[document_id |-> i.id,
    invoice_number |-> i.props.invoice_number,
    date |-> i.props.date,
    total_amount |-> i.props.total_amount,
    line_items |-> {[node_id |-> x.node_id, properties |-> x.props] : x \in ItemsOf(i)}] :
     i \in {i \in nodes : /\ i.label = InvoiceLabel
                          /\ i.props.invoice_number # NoValue
                          /\ ItemsOf(i) # {}}}

TypeFilters == {NoValue, "invoice", "contract"}

Read(site, in, out) == [NoProbe EXCEPT !.site = site, !.stage = "out", !.in = in, !.out = out]

\* POST /query.
query_kag ==
  /\ \E t \in TypeFilters :
       probe' = Read("query_kag", [document_type |-> t],
                     [status |-> 200, failed |-> FALSE,
                      results |-> {[id |-> row.document_id, metadata |-> row] :
                                     row \in search(t)}])
  /\ UNCHANGED <<nodes, edges, req, args, rag>>

\* POST /query: session.run raised.
query_kag_fails ==
  /\ \E t \in TypeFilters :
       probe' = Read("query_kag", [document_type |-> t],
                     [status |-> 500, failed |-> TRUE, results |-> {}])
  /\ UNCHANGED <<nodes, edges, req, args, rag>>

\* The ids a caller may ask for: those of the requests, and one of no request.
UnknownId == MaxReq + 1
DocumentIds == Requests \cup {UnknownId}

\* MATCH (d:Document {id: $document_id}), the label of the other writer.
GetDocumentMatchesDocumentLabel(document_id) == DocMatches(DocumentLabel, document_id)

\* MATCH (d:Invoice {id: $document_id})
get_document_matches(document_id) == DocMatches(InvoiceLabel, document_id)

\* result.single() and the two returns of get_document.
get_document(document_id) ==
  IF get_document_matches(document_id) = {}
  THEN [error |-> "not found"]
  ELSE LET d == CHOOSE d \in get_document_matches(document_id) : TRUE
       IN  [document_id |-> d.id,
            invoice_number |-> d.props.invoice_number,
            s3_key |-> IF "s3_key" \in DOMAIN d.props THEN d.props.s3_key ELSE NoValue,
            line_items |-> {[node_id |-> x.node_id, properties |-> x.props] :
                              x \in ItemsOf(d)}]

\* GET /document/{document_id}.
get_kag_document ==
  /\ \E id \in DocumentIds :
       LET document == get_document(id)
       IN  probe' = Read("get_kag_document", [document_id |-> id],
                         [status |-> IF "error" \in DOMAIN document THEN 404 ELSE 200,
                          failed |-> FALSE, document |-> document])
  /\ UNCHANGED <<nodes, edges, req, args, rag>>

\* GET /document/{document_id}: session.run raised, or the response did not
\* validate.
get_kag_document_fails ==
  /\ \E id \in DocumentIds :
       probe' = Read("get_kag_document", [document_id |-> id],
                     [status |-> 500, failed |-> TRUE, document |-> [error |-> "raised"]])
  /\ UNCHANGED <<nodes, edges, req, args, rag>>

NextApi ==
  \/ \E r \in Requests :
        \/ process_input(r)
        \/ process_document_upload_fails(r)
        \/ preprocess_document(r)
        \/ process_document_no_text(r)
        \/ process_document_model_fails(r)
        \/ process_document(r, ApiStructures, TRUE)
        \/ session_run(r)
        \/ session_run_fails(r)
  \/ query_kag
  \/ query_kag_fails
  \/ get_kag_document
  \/ get_kag_document_fails

SpecApi == Init /\ [][NextApi]_vars

(***************************************************************************)
(* C19: the documents a query with a document-type filter returns all have *)
(* that type, the type the model gave the document at its ingestion.  The  *)
(* statement of the claim; SpecApi.                                        *)
(***************************************************************************)
C19_FilterRespected ==
  /\ probe.site = "query_kag"
  /\ probe.out.status = 200
  /\ probe.in.document_type # NoValue
  => \A d \in probe.out.results :
        args[d.id].document_node.type = probe.in.document_type

(***************************************************************************)
(* C20: GET /document/{id} for an id that no document carries answers 404, *)
(* or 500 when it failed, and never 200; for an id a document carries it   *)
(* never answers 404; and a failure is never answered with 404.  SpecApi.  *)
(***************************************************************************)
Carried(id) == \E n \in DocumentNodes : n.id = id

GetDocumentAnswers == probe' # probe /\ probe'.site = "get_kag_document"

C20_NotFoundIsDistinct ==
  [][GetDocumentAnswers =>
       LET id == probe'.in.document_id
           out == probe'.out
       IN  /\ ~Carried(id) => out.status # 200 /\ (~out.failed => out.status = 404)
           /\ Carried(id) => out.status # 404 /\ (~out.failed => out.status = 200)
           /\ out.failed <=> out.status = 500]_vars

\* The id of no document was asked for and 404 answered, while the store
\* holds a document.
C20_Witness ==
  /\ probe.site = "get_kag_document"
  /\ probe.out.status = 404
  /\ ~Carried(probe.in.document_id)
  /\ DocumentNodes # {}

(***************************************************************************)
(* An ingested document stays as it was ingested.                          *)
(***************************************************************************)
\* The items get_document is to collect for the document made of gs.
IngestedItems(gs) ==
  {[node_id |-> IndexedId("node", i - 1), properties |-> gs.entities[i].properties] :
     i \in DOMAIN gs.entities}

\* C21: no step removes or alters a node or an edge of the store, and when
\* GET /document/{id} answers for an id that an ingestion returned, the answer
\* is 200 with that id, the invoice_number of that ingestion's document node
\* and exactly the entities of that ingestion, whatever was ingested or asked
\* in between.
C21_IngestedDocumentStable ==
  [][/\ nodes \subseteq nodes'
     /\ edges \subseteq edges'
     /\ GetDocumentAnswers =>
          LET id == probe'.in.document_id
              out == probe'.out
          IN  (id \in Requests /\ req[id].status = "ok" /\ req[id].document_id = id
                 /\ ~out.failed)
                => /\ out.status = 200
                   /\ out.document.document_id = id
                   /\ out.document.invoice_number
                        = args[id].document_node.properties.invoice_number
                   /\ out.document.line_items = IngestedItems(args[id])]_vars

\* A document with an entity was read back after every ingestion returned,
\* the other document holding an entity too.
C21_Witness ==
  /\ probe.site = "get_kag_document"
  /\ probe.out.status = 200
  /\ probe.out.document.line_items # {}
  /\ \A r \in Requests : req[r].status = "ok" /\ args[r].entities # <<>>

\* C22: the Invoice node of an ingestion that archived its PDF carries the
\* s3_key the ingestion returned, and GET /document/{id} answers with it.
C22_StorageKeyOnNode ==
  /\ \A d \in {n \in nodes : n.made = "doc" /\ n.label = InvoiceLabel} :
       req[d.id].s3_key # NoValue
         => "s3_key" \in DOMAIN d.props /\ d.props.s3_key = req[d.id].s3_key
  /\ (probe.site = "get_kag_document" /\ probe.out.status = 200)
       => probe.out.document.s3_key = req[probe.in.document_id].s3_key

(***************************************************************************)
(* semantic_search_graph: the query compiled from a search specification.  *)
(* cypher_parts is a sequence of clauses.  A MATCH clause is a path of     *)
(* node patterns (var:label), joined by a relationship of one type where   *)
(* there are two; a WHERE clause is a conjunction of conditions; the       *)
(* RETURN clause is a list of columns.  part names the statement of the    *)
(* code that appended the clause.                                          *)
(***************************************************************************)
MaxTypes == 2
MaxConditions == 1

NoLabel == <<>>
NodePattern(var, label) == [var |-> var, label |-> label]

MatchClause(part, path, type) == [clause |-> "MATCH", part |-> part, path |-> path, type |-> type]
WhereClause(part, conditions) == [clause |-> "WHERE", part |-> part, conditions |-> conditions]
ReturnClause(columns) == [clause |-> "RETURN", part |-> "return", columns |-> columns]

\* <var>.<attribute> <op> <value>, the value between quotes or not.
Condition(var, attribute, op, value, quoted) ==
  [var |-> var, attribute |-> attribute, op |-> op, value |-> value, quoted |-> quoted]

\* <var>.<property> as <alias>, or <var> as <alias> where property is no value.
Column(var, property, alias) == [var |-> var, property |-> property, alias |-> alias]

\* search_params.get(key, [])
ParamsGet(search_params, key) ==
  IF key \in DOMAIN search_params THEN search_params[key] ELSE <<>>

EmptySearch == [entity_types |-> <<>>, attributes |-> <<>>, relationships |-> <<>>]

\* The try block stands around the model call alone.
SearchParamsParsedOutsideTry(o) ==
  IF o.kind = "json" THEN Return(o.value)
  ELSE IF o.kind = "raises" THEN Return(EmptySearch)
  ELSE Raise

\* The try block around the model call and json.loads.
search_params_of(o) ==
  IF o.kind = "json" THEN Return(o.value) ELSE Return(EmptySearch)

\* The names e0, e1, ...
GeneratedNames == <<"e0", "e1", "e2", "e3", "e4">>

\* f"e{i+1}"
VarNameFromOne(i) == GeneratedNames[i + 2]

\* f"e{i}"
var_name(i) == GeneratedNames[i + 1]

\* if document_type:
Supplied(document_type) == document_type # NoValue /\ document_type # ""

TypeFilterParts(document_type) ==
  IF Supplied(document_type)
  THEN <<WhereClause("type_filter", <<Condition("d", "type", "=", document_type, TRUE)>>)>>
  ELSE <<>>

EntityTypeParts(entity_types) ==
  [k \in DOMAIN entity_types |->
     MatchClause("entity_types",
                 <<NodePattern("d", NoLabel),
                   NodePattern(var_name(k - 1), SearchLabel(entity_types[k]))>>,
                 CONTAINS)]

ConditionOperators == {"equals", "contains", "greater_than", "less_than"}

\* The four branches of the if/elif chain; a condition of another name
\* appends nothing.
where_condition(attr) ==
  CASE attr.condition = "equals" ->
         Condition(attr.entity, attr.attribute, "=", attr.value, TRUE)
    [] attr.condition = "contains" ->
         Condition(attr.entity, attr.attribute, "CONTAINS", attr.value, TRUE)
    [] attr.condition = "greater_than" ->
         Condition(attr.entity, attr.attribute, ">", attr.value, FALSE)
    [] attr.condition = "less_than" ->
         Condition(attr.entity, attr.attribute, "<", attr.value, FALSE)

where_conditions(attributes) ==
  LET kept == SelectSeq(attributes, LAMBDA attr : attr.condition \in ConditionOperators)
  IN  [k \in DOMAIN kept |-> where_condition(kept[k])]

AttributeParts(attributes) ==
  IF where_conditions(attributes) # <<>>
  THEN <<WhereClause("attributes", where_conditions(attributes))>>
  ELSE <<>>

RelationshipParts(relationships) ==
  [k \in DOMAIN relationships |->
     MatchClause("relationships",
                 <<NodePattern(relationships[k].from, NoLabel),
                   NodePattern(relationships[k].to, NoLabel)>>,
                 SearchRelType(relationships[k].type))]

return_vars(entity_types) ==
  <<Column("d", "id", StrV(<<"d","o","c","u","m","e","n","t","_","i","d">>)),
    Column("d", "type", StrV(<<"d","o","c","u","m","e","n","t","_","t","y","p","e">>))>>
    \o [k \in DOMAIN entity_types |->
          Column(var_name(k - 1), NoValue, StrV(entity_types[k]))]

cypher_parts(search_params, document_type) ==
  <<MatchClause("document", <<NodePattern("d", DocumentLabel)>>, NoLabel)>>
    \o TypeFilterParts(document_type)
    \o EntityTypeParts(ParamsGet(search_params, "entity_types"))
    \o AttributeParts(ParamsGet(search_params, "attributes"))
    \o RelationshipParts(ParamsGet(search_params, "relationships"))
    \o <<ReturnClause(return_vars(ParamsGet(search_params, "entity_types")))>>

\* The query that semantic_search_graph hands to session.run, or the
\* exception it raises before.
semantic_search_graph_query(o, document_type) ==
  LET search_params == search_params_of(o)
  IN  IF search_params.raised THEN Raise
      ELSE Return(cypher_parts(search_params.value, document_type))

\* The entity types, attribute conditions and relationships of the replies.
SearchTypes == {<<"I","t","e","m">>, <<"L","i","n","e"," ","I","t","e","m">>}

\* entity is the name of an entity, as the prompt asks, or the name of a
\* variable of the query.
SearchEntities == {"Item", "e0"}

SearchAttributes ==
  {[entity |-> e, attribute |-> "price", condition |-> c, value |-> "100"] :
     e \in SearchEntities, c \in {"equals", "greater_than", "between"}}

SearchRelationships ==
  {[from |-> f, to |-> t, type |-> ty] :
     f \in SearchEntities, t \in SearchEntities, ty \in {<<"h","a","s"," ","a">>}}

SearchReplies ==
  {[entity_types |-> ts, attributes |-> as, relationships |-> rs] :
     ts \in SeqsUpTo(SearchTypes, MaxTypes),
     as \in SeqsUpTo(SearchAttributes, MaxConditions),
     rs \in SeqsUpTo(SearchRelationships, MaxConditions)}
  \cup {[entity_types |-> ts] : ts \in SeqsUpTo(SearchTypes, MaxTypes)}

InitSearch ==
  /\ GraphIdle
  /\ \E o \in ModelOutcomes(SearchReplies), t \in TypeFilters \cup {""} :
       probe = [NoProbe EXCEPT !.site = "semantic_search_graph", !.stage = "in",
                               !.in = [reply |-> o, document_type |-> t]]

semantic_search_graph ==
  /\ probe.stage = "in"
  /\ probe' = [probe EXCEPT
                 !.stage = "out",
                 !.out = semantic_search_graph_query(probe.in.reply, probe.in.document_type)]
  /\ UNCHANGED <<nodes, edges, req, args, rag>>

NextSearch == semantic_search_graph

SpecSearch == InitSearch /\ [][NextSearch]_vars

Compiled == probe.site = "semantic_search_graph" /\ probe.stage = "out"

\* The clauses of a query that a statement of the code appended, in order.
PartsOf(query, part) == SelectSeq(query, LAMBDA c : c.part = part)

\* C24: for a specification whose entity_types list has n entries, the query
\* has exactly n entity match clauses, the i-th binding e(i-1) to the i-th
\* type, in the order of the list; its last clause is the projection, which
\* is d.id, d.type and then one column per entry, e(i-1) as the i-th type.
C24_OneMatchPerEntityType ==
  (Compiled /\ probe.in.reply.kind = "json" /\ "entity_types" \in DOMAIN probe.in.reply.value)
    => /\ ~probe.out.raised
       /\ LET types == probe.in.reply.value.entity_types
              query == probe.out.value
              matches == SelectSeq(query, LAMBDA c : c.clause = "MATCH" /\ c.type = CONTAINS)
              columns == query[Len(query)].columns
          IN  /\ Len(matches) = Len(types)
              /\ \A i \in 1..Len(types) :
                   /\ matches[i].path[1] = NodePattern("d", NoLabel)
                   /\ matches[i].path[2].var = GeneratedNames[i]
                   /\ matches[i].path[2].label = types[i]
              /\ query[Len(query)].clause = "RETURN"
              /\ \A k \in 1..(Len(query) - 1) : query[k].clause # "RETURN"
              /\ Len(columns) = 2 + Len(types)
              /\ <<columns[1].var, columns[1].property>> = <<"d", "id">>
              /\ <<columns[2].var, columns[2].property>> = <<"d", "type">>
              /\ \A i \in 1..Len(types) :
                   /\ columns[2 + i].var = GeneratedNames[i]
                   /\ columns[2 + i].property = NoValue
                   /\ columns[2 + i].alias = StrV(types[i])

\* Two entity types were compiled, with a type filter.
C24_Witness ==
  /\ Compiled
  /\ probe.in.reply.kind = "json"
  /\ Len(ParamsGet(probe.in.reply.value, "entity_types")) = MaxTypes
  /\ Supplied(probe.in.document_type)
  /\ Len(probe.out.value) >= 2 + MaxTypes

\* C25: when the model call failed or its reply was not JSON,
\* semantic_search_graph does not raise and compiles the empty specification:
\* MATCH (d:Document), the filter d.type = document_type exactly when a type
\* was given, and the projection d.id, d.type.
C25_EmptySpecificationOnFailure ==
  (Compiled /\ probe.in.reply.kind # "json")
    => /\ ~probe.out.raised
       /\ LET query == probe.out.value
              given == probe.in.document_type \notin {NoValue, ""}
              last == query[Len(query)]
          IN  /\ Len(query) = IF given THEN 3 ELSE 2
              /\ query[1].clause = "MATCH"
              /\ query[1].path = <<NodePattern("d", DocumentLabel)>>
              /\ given => /\ query[2].clause = "WHERE"
                          /\ Len(query[2].conditions) = 1
                          /\ query[2].conditions[1].var = "d"
                          /\ query[2].conditions[1].attribute = "type"
                          /\ query[2].conditions[1].op = "="
                          /\ query[2].conditions[1].value = probe.in.document_type
              /\ last.clause = "RETURN"
              /\ Len(last.columns) = 2
              /\ <<last.columns[1].var, last.columns[1].property>> = <<"d", "id">>
              /\ <<last.columns[2].var, last.columns[2].property>> = <<"d", "type">>

\* The reply was not JSON, a type was given, and the query is the filtered
\* match of all documents.
C25_Witness ==
  /\ Compiled
  /\ probe.in.reply.kind = "malformed"
  /\ probe.in.document_type = "contract"
  /\ ~probe.out.raised
  /\ Len(probe.out.value) = 3

\* The variables that the MATCH clauses before clause k bind.
BoundBefore(query, k) ==
  UNION {{query[j].path[m].var : m \in DOMAIN query[j].path} :
           j \in {j \in 1..(k - 1) : query[j].clause = "MATCH"}}

\* C26: in every compiled query, the variable of each attribute condition and
\* the two variables of each relationship match clause are bound by a match
\* clause that precedes the clause.
C26_VariablesBound ==
  (Compiled /\ ~probe.out.raised)
    => LET query == probe.out.value
       IN  \A k \in DOMAIN query :
             /\ query[k].part = "attributes"
                  => \A c \in DOMAIN query[k].conditions :
                       query[k].conditions[c].var \in BoundBefore(query, k)
             /\ query[k].part = "relationships"
                  => \A m \in DOMAIN query[k].path :
                       query[k].path[m].var \in BoundBefore(query, k)

(***************************************************************************)
(* VectorDatabase.  Each method is a function of the handle, the stores    *)
(* and what Chroma does in the call, and gives the handle and the stores   *)
(* it leaves and its result.                                               *)
(***************************************************************************)
Left(handle, st, result) == [vector_db |-> [_vector_store |-> handle], stores |-> st, result |-> result]

\* shutil.rmtree(self.persist_directory)
Rmtree(st) == [st EXCEPT !.persistent = {}]

\* The collection in memory lives as long as the handle names it.
Dropped(st) == [st EXCEPT !.in_memory = {}]

\* connect(): Chroma(...) succeeds; or fails, and then, where the message
\* names a permission problem, _recreate_vector_store removes the directory
\* and succeeds.
ConnectOutcomes == {"ok", "fails", "recreated"}

connect(vdb, st, outcome) ==
  CASE outcome = "ok" -> Left(Persistent, Dropped(st), TRUE)
    [] outcome = "recreated" -> Left(Persistent, Dropped(Rmtree(st)), TRUE)
    [] OTHER -> Left(vdb._vector_store, st, FALSE)

get_vector_store(vdb, st, outcome) ==
  IF vdb._vector_store = NoValue THEN connect(vdb, st, outcome)
  ELSE Left(vdb._vector_store, st, TRUE)

\* <collection>.add_documents(documents)
Added(st, handle, documents) ==
  IF handle = Persistent THEN [st EXCEPT !.persistent = @ \cup documents]
  ELSE [st EXCEPT !.in_memory = @ \cup documents]

\* What Chroma does during one add_documents: the connection of
\* get_vector_store, the first add (done, or an exception whose message
\* names a permission problem or does not), _recreate_vector_store, the add
\* after it, and the add to a new collection in memory.  A step that the
\* steps before it keep from running is written as FALSE.
AddOutcomes ==
  {env \in [connect : ConnectOutcomes, add : {"ok", "permission", "other"},
            recreate : BOOLEAN, again : BOOLEAN, in_memory : BOOLEAN] :
     /\ env.recreate => env.add = "permission"
     /\ env.again => env.recreate
     /\ env.in_memory => env.add # "ok" \/ env.connect = "fails"}

\* connect() runs where there is no handle.
Connects(vdb) == IF vdb._vector_store = NoValue THEN ConnectOutcomes ELSE {"ok"}

\* The last resort of add_documents: a new collection in memory takes the
\* documents and the handle, or the call returns False.
last_resort(vdb, st, documents, env) ==
  IF env.in_memory
  THEN Left(InMemory, [st EXCEPT !.in_memory = documents], TRUE)
  ELSE Left(vdb._vector_store, st, FALSE)

add_documents(vdb, st, documents, env) ==
  LET got == get_vector_store(vdb, st, env.connect)
      handle == got.vector_db._vector_store
      \* None has no add_documents: an exception that names no permission.
      add == IF handle = NoValue THEN "other" ELSE env.add
  IN  CASE add = "ok" -> Left(handle, Added(got.stores, handle, documents), TRUE)
        [] add = "permission" /\ env.recreate /\ env.again ->
             Left(Persistent, Added(Dropped(Rmtree(got.stores)), Persistent, documents), TRUE)
        [] add = "permission" /\ env.recreate /\ ~env.again ->
             last_resort([_vector_store |-> Persistent], Dropped(Rmtree(got.stores)),
                         documents, env)
        [] add = "permission" /\ ~env.recreate ->
             last_resort([_vector_store |-> NoValue], Dropped(got.stores), documents, env)
        [] OTHER -> last_resort(got.vector_db, got.stores, documents, env)

\* The collection the handle names.
Collection(st, handle) == IF handle = Persistent THEN st.persistent ELSE st.in_memory

\* The rankings Chroma may give: k of the chunks of a collection, or all of
\* them where there are fewer, in some order.
RECURSIVE Rankings(_, _)
Rankings(collection, k) ==
  IF k = 0 \/ collection = {} THEN {<<>>}
  ELSE UNION {{<<c>> \o rest : rest \in Rankings(collection \ {c}, k - 1)} : c \in collection}

\* similarity_search: the except branch returns [] and nothing is raised.
similarity_search(vdb, st, k, env) ==
  LET got == get_vector_store(vdb, st, env.connect)
      handle == got.vector_db._vector_store
  IN  IF handle = NoValue \/ env.search = "fails"
      THEN Left(handle, got.stores, Return(<<>>))
      ELSE Left(handle, got.stores, Return(env.docs))

\* clear(): the handle is dropped first; then the directory is removed and a
\* new Chroma made, or one of the steps raises, before the removal or after.
ClearOutcomes == {"ok", "fails_before", "fails_after"}

clear(vdb, st, outcome) ==
  CASE outcome = "ok" -> Left(Persistent, Dropped(Rmtree(st)), TRUE)
    [] outcome = "fails_after" -> Left(NoValue, Dropped(Rmtree(st)), FALSE)
    [] OTHER -> Left(NoValue, Dropped(st), FALSE)

(***************************************************************************)
(* DocumentService and the routes of the document side.  The handlers are  *)
(* coroutines that never yield between their first and last statement      *)
(* (time.sleep blocks the loop), so one request is in flight at a time;    *)
(* probe holds it: the call, its arguments, and where it stands.           *)
(***************************************************************************)
MaxChunks == 2
MaxFallback == 2
MaxK == 2

\* for attempt in range(max_retries)
max_retries == 3

Chunk(page_content) == [page_content |-> page_content]

Chunks ==
  {Chunk(<<"T","o","t","a","l"," ","d","u","e">>),
   Chunk(<<"d","u","e"," ","d","a","t","e">>),
   Chunk(<<"i","t","e","m">>)}

\* split_docs of the uploads: the chunks of a PDF, in order.
SplitDocs == SeqsUpTo(Chunks, MaxChunks) \ {<<>>}

\* "\n\n".join([doc.page_content for doc in documents]), of pages that the
\* splitter leaves whole.
RECURSIVE content_of(_)
content_of(documents) ==
  IF Len(documents) = 1 THEN documents[1].page_content
  ELSE documents[1].page_content \o <<"\n", "\n">> \o content_of(Tail(documents))

\* document_model.to_dict(), as far as query_documents reads it.
to_dict(documents) == [content |-> content_of(documents)]

\* The listing of the upload directory gave no metadata file.
NoDocument == [content |-> <<>>]

DocQueries == {<<"T","o","t","a","l"," ","d","u","e">>, <<"t","a","x">>}

\* str.split()
RECURSIVE split(_)
split(s) ==
  LET t == lstrip(s)
  IN  IF t = <<>> THEN <<>>
      ELSE LET n == CHOOSE n \in 1..Len(t) :
                      /\ \A i \in 1..n : t[i] \notin Whitespace
                      /\ n = Len(t) \/ t[n + 1] \in Whitespace
           IN  <<SubSeq(t, 1, n)>> \o split(SubSeq(t, n + 1, Len(t)))

\* The score of one fallback document: the query terms its content holds.
score(doc, query_terms) ==
  Cardinality({i \in DOMAIN query_terms : Occurs(query_terms[i], lower(doc.page_content))})

\* scored_docs.sort(key=lambda x: x[1], reverse=True): by score, the higher
\* first, documents of one score in the order they have.
sorted_by_score(docs, query_terms) ==
  LET before(i, j) ==
        \/ score(docs[i], query_terms) > score(docs[j], query_terms)
        \/ score(docs[i], query_terms) = score(docs[j], query_terms) /\ i < j
      place(j) == 1 + Cardinality({i \in DOMAIN docs : before(i, j)})
  IN  [p \in DOMAIN docs |-> docs[CHOOSE j \in DOMAIN docs : place(j) = p]]

\* seq[:k]
Take(seq, k) == SubSeq(seq, 1, IF k < Len(seq) THEN k ELSE Len(seq))

\* The keyword matching of the except branch of query_documents.
fallback_search(fallback_documents, query, k) ==
  Take(sorted_by_score(fallback_documents, split(lower(query))), k)

\* The loop runs on whatever add_documents returned.
LoopIgnoresSuccess(attempt, success) == attempt < max_retries

\* The loop of process_pdf starts another iteration.
loop_continues(attempt, success) == attempt < max_retries /\ ~success

InFlight == probe.site = "process_pdf" /\ probe.stage = "add"

\* process_pdf up to the loop: the file is saved, loaded and split, and the
\* chunks are appended to fallback_documents; or a statement before that
\* raises, and (False, message, None) is returned.
process_pdf(uploads) ==
  /\ ~InFlight
  /\ \E split_docs \in uploads, raises \in BOOLEAN :
       /\ Len(document_service.fallback_documents) + Len(split_docs) <= MaxFallback
       /\ IF raises
          THEN /\ probe' = [NoProbe EXCEPT !.site = "process_pdf", !.stage = "done",
                                           !.in = [split_docs |-> split_docs],
                                           !.out = [attempt |-> 0, calls |-> 0,
                                                    success |-> FALSE, returned |-> "error"]]
               /\ UNCHANGED document_service
          ELSE /\ probe' = [NoProbe EXCEPT !.site = "process_pdf", !.stage = "add",
                                           !.in = [split_docs |-> split_docs],
                                           !.out = [attempt |-> 0, calls |-> 0,
                                                    success |-> FALSE, returned |-> NoValue]]
               /\ document_service' =
                    [document_service EXCEPT !.fallback_documents = @ \o split_docs]
  /\ UNCHANGED <<nodes, edges, req, args, vector_db, stores>>

\* One iteration of the loop: vector_db.add_documents(split_docs).
process_pdf_add_documents ==
  /\ InFlight
  /\ loop_continues(probe.out.attempt, probe.out.success)
  /\ \E env \in AddOutcomes :
       LET left == add_documents(vector_db, stores, Range(probe.in.split_docs), env)
       IN  /\ env.connect \in Connects(vector_db)
           /\ vector_db' = left.vector_db
           /\ stores' = left.stores
           /\ probe' = [probe EXCEPT !.out.attempt = @ + 1, !.out.calls = @ + 1,
                                     !.out.success = left.result]
  /\ UNCHANGED <<nodes, edges, req, args, document_service>>

\* After the loop: the metadata file is written and (True, message, model)
\* returned, the message naming the fallback storage where no call
\* succeeded; or the write raises.
process_pdf_returns ==
  /\ InFlight
  /\ ~loop_continues(probe.out.attempt, probe.out.success)
  /\ \E raises \in BOOLEAN :
       IF raises
       THEN /\ probe' = [probe EXCEPT !.stage = "done", !.out.returned = "error"]
            /\ UNCHANGED stores
       ELSE /\ probe' = [probe EXCEPT !.stage = "done",
                                      !.out.returned = IF probe.out.success THEN "stored"
                                                       ELSE "fallback"]
            /\ stores' = [stores EXCEPT !.upload_dir = @ \cup {to_dict(probe.in.split_docs)}]
  /\ UNCHANGED <<nodes, edges, req, args, vector_db, document_service>>

\* What the stores and the model do during one query_documents: the
\* connection of get_vector_store, the similarity search, the listing of the
\* metadata files, and the agent (its two model calls done, the second with
\* a reply that is no JSON, or one of them raising).
QueryOutcomes ==
  [connect : ConnectOutcomes, search : {"ok", "fails"}, listing : BOOLEAN,
   agent : {"ok", "no_json", "raises"}]

\* The results of query_documents for the documents found.
formatted(docs) == [i \in DOMAIN docs |-> [content |-> docs[i].page_content, score |-> i - 1]]

\* The dictionary of the except branch of query_documents.
ErrorResponse(query) ==
  [query |-> query, error |-> "Error querying documents", results |-> <<>>,
   conversational_response |-> "sorry", followup_questions |-> "try again"]

\* query_documents: the handle and the stores it leaves, and its dictionary.
\* ranked is what Chroma answers where the search is done, first the metadata
\* file that the listing gives first.
query_documents(query, k, env, ranked, first) ==
  LET searched == similarity_search(vector_db, stores, k,
                                    [connect |-> env.connect, search |-> env.search,
                                     docs |-> ranked])
      docs == IF searched.result.raised
              THEN IF document_service.fallback_documents # <<>>
                   THEN fallback_search(document_service.fallback_documents, query, k)
                   ELSE <<>>
              ELSE searched.result.value
      all_docs == IF env.listing THEN searched.stores.upload_dir ELSE {}
      results == IF formatted(docs) # <<>> THEN formatted(docs)
                 ELSE IF all_docs # {} THEN <<[content |-> first.content, score |-> 0]>>
                 ELSE <<>>
      response == IF env.agent = "raises" THEN ErrorResponse(query)
                  ELSE [query |-> query, results |-> results,
                        conversational_response |-> "generated",
                        followup_questions |-> IF env.agent = "ok" THEN "generated"
                                               ELSE "default"]
  IN  [searched EXCEPT !.result = response]

\* The arguments of a query, what Chroma may answer and the metadata file
\* that may come first.
QueryCalls == [query : DocQueries, k : 1..MaxK, env : QueryOutcomes]

\* POST /query: 400 where the dictionary has an error, else the dictionary.
QueryStatus(response) == IF "error" \in DOMAIN response THEN 400 ELSE 200

\* The keys that concise_query_documents reads from the dictionary.
ConciseKeys == {"query", "concise_answer", "followup_questions"}

\* POST /concise-query: 400 where the dictionary has an error; else the three
\* keys are read, and a key that is not there raises KeyError.
ConciseStatus(response) ==
  IF "error" \in DOMAIN response THEN 400
  ELSE IF ConciseKeys \subseteq DOMAIN response THEN 200
  ELSE 500

ConciseBody(response) ==
  IF ConciseStatus(response) = 200
  THEN [k \in ConciseKeys |-> response[k]]
  ELSE [detail |-> "raised"]

\* What the route of a site makes of the dictionary.
RouteStatus(site, response) ==
  IF site = "query_documents" THEN QueryStatus(response) ELSE ConciseStatus(response)

RouteBody(site, response) ==
  IF site = "query_documents" THEN response ELSE ConciseBody(response)

\* A route awaits query_documents and answers.
Answers(site) ==
  /\ ~InFlight
  /\ \E c \in QueryCalls :
       LET got == get_vector_store(vector_db, stores, c.env.connect)
           handle == got.vector_db._vector_store
           collection == Collection(got.stores, handle)
           listed == IF c.env.listing THEN stores.upload_dir ELSE {}
       IN  \E ranked \in IF c.env.search = "ok" THEN Rankings(collection, c.k) ELSE {<<>>},
              first \in IF listed = {} THEN {NoDocument} ELSE listed :
             LET left == query_documents(c.query, c.k, c.env, ranked, first)
             IN  /\ c.env.connect \in Connects(vector_db)
                 /\ vector_db' = left.vector_db
                 /\ stores' = left.stores
                 /\ probe' = Read(site,
                                  [query |-> c.query, k |-> c.k,
                                   unavailable |-> handle = NoValue \/ c.env.search = "fails"],
                                  [status |-> RouteStatus(site, left.result),
                                   response |-> left.result,
                                   body |-> RouteBody(site, left.result)])
  /\ UNCHANGED <<nodes, edges, req, args, document_service>>

query_documents_route == Answers("query_documents")

concise_query_documents == Answers("concise_query_documents")

\* POST /clear-vector-db.
clear_vector_database ==
  /\ ~InFlight
  /\ \E outcome \in ClearOutcomes :
       LET left == clear(vector_db, stores, outcome)
       IN  /\ vector_db' = left.vector_db
           /\ stores' = left.stores
           /\ probe' = Read("clear_vector_database", [outcome |-> outcome],
                            [status |-> IF left.result THEN 200 ELSE 500])
  /\ UNCHANGED <<nodes, edges, req, args, document_service>>

(***************************************************************************)
(* SpecRag: the requests of the document side, in any order, in a process  *)
(* whose connect() at start succeeded or did not.                          *)
(***************************************************************************)
InitRag ==
  /\ nodes = {}
  /\ edges = {}
  /\ req = [r \in Requests |-> Idle]
  /\ args = [r \in Requests |-> NoArgs]
  /\ probe = NoProbe
  /\ vector_db \in {Connected, [_vector_store |-> NoValue]}
  /\ stores = EmptyStores
  /\ document_service = NewDocumentService

NextRag ==
  \/ process_pdf(SplitDocs)
  \/ process_pdf_add_documents
  \/ process_pdf_returns
  \/ query_documents_route
  \/ concise_query_documents
  \/ clear_vector_database

SpecRag == InitRag /\ [][NextRag]_vars

\* A request of the document side has just been served.
QuerySites == {"query_documents", "concise_query_documents"}

\* C23: no request writes application state of the process that a later
\* request reads: no step changes the fallback documents of document_service,
\* and no step changes a handle that vector_db has, so that what a request
\* gives is a function of its input and of the stores.
C23_NoSharedApplicationState ==
  [][/\ document_service' = document_service
     /\ vector_db._vector_store # NoValue => vector_db' = vector_db]_vars

\* C28: when the vector store was not there or its search failed, and
\* fallback_documents holds chunks, the results of query_documents are the k
\* chunks of fallback_documents that hold the most query terms, the fewer
\* where there are fewer chunks, ranked by that number.
C28_AnswersFromFallback ==
  (/\ probe.site \in QuerySites
   /\ probe.in.unavailable
   /\ document_service.fallback_documents # <<>>
   /\ "error" \notin DOMAIN probe.out.response)
    => probe.out.response.results
         = formatted(fallback_search(document_service.fallback_documents,
                                     probe.in.query, probe.in.k))

\* C29: once the handle names the collection in memory, every step leaves it
\* naming the collection in memory.
C29_DowngradeIrreversible ==
  [][vector_db._vector_store = InMemory => vector_db'._vector_store = InMemory]_vars

\* C30: whenever query_documents returns a dictionary without an error, the
\* concise-query endpoint answers 200 with the query, the concise answer and
\* the follow-up questions.
C30_ConciseQueryAnswers ==
  (probe.site = "concise_query_documents" /\ "error" \notin DOMAIN probe.out.response)
    => /\ probe.out.status = 200
       /\ DOMAIN probe.out.body = ConciseKeys

(***************************************************************************)
(* SpecRetry: uploads of one PDF to the document side, and one ingestion   *)
(* on the graph side.  A handler that has started runs on: the iterations  *)
(* of the loop of process_pdf and its return are taken when they can be.   *)
(***************************************************************************)
RetryDocs == {<<Chunk(<<"i","t","e","m">>)>>}
RetryStructures == GraphStructures(ApiSchema, ApiList)

NextRetry ==
  \/ process_pdf(RetryDocs)
  \/ process_pdf_add_documents
  \/ process_pdf_returns
  \/ process_input(1)
  \/ process_document_upload_fails(1)
  \/ preprocess_document(1)
  \/ process_document_no_text(1)
  \/ process_document_model_fails(1)
  \/ process_document(1, RetryStructures, TRUE)
  \/ session_run(1)
  \/ session_run_fails(1)

SpecRetry ==
  /\ InitRag
  /\ [][NextRetry]_vars
  /\ WF_vars(process_pdf_add_documents)
  /\ WF_vars(process_pdf_returns)

\* C27: process_pdf calls vector_db.add_documents at most 3 times for one
\* upload and never after a call that returned True, and an upload that has
\* reached the loop returns; a request of the graph side calls the model at
\* most once, and each of its queries is run once: a step either passes to
\* the next query or, where the query fails, ends the request.
C27_BoundedAttempts ==
  /\ [](probe.site = "process_pdf" => probe.out.calls <= 3)
  /\ [][(InFlight /\ probe'.out.calls # probe.out.calls)
          => /\ ~probe.out.success
             /\ probe'.out.calls = probe.out.calls + 1]_vars
  /\ (InFlight ~> (probe.site = "process_pdf" /\ probe.stage = "done"))
  /\ [][\A r \in Requests :
          /\ req'[r].model_calls <= 1
          /\ req'[r].model_calls >= req[r].model_calls
          /\ (req[r].pc = "run" /\ req'[r] # req[r])
               => \/ req'[r].at = req[r].at + 1 /\ req'[r].cause = "none"
                  \/ /\ req'[r].pc = "done"
                     /\ req'[r].cause = "store"
                     /\ nodes' = nodes /\ edges' = edges
          /\ \A n \in nodes' \ nodes :
               n.key[1] = r => n.key[2] = req[r].at /\ req'[r].at = req[r].at + 1]_vars

\* An upload returned after three calls that all returned False, and the
\* ingestion ended at a query that failed.
C27_Witness ==
  /\ probe.site = "process_pdf"
  /\ probe.stage = "done"
  /\ probe.out.calls = 3
  /\ ~probe.out.success
  /\ probe.out.returned = "fallback"
  /\ req[1].cause = "store"
  /\ req[1].at > 1
====
